---- MODULE Spec2Model ----
(***************************************************************************)
(* A model of memo (ykaratkou/memo): the three-table store of db.ts, the   *)
(* deduplication check of dedup.ts, the hybrid search of search.ts and the *)
(* CLI commands of cli.ts that drive them.                                 *)
(*                                                                         *)
(* Every CLI command runs in a process of its own (main() closes the       *)
(* database and exits), so one action is one command and the in-process    *)
(* L1 embedding cache is empty when a command starts.                      *)
(*                                                                         *)
(* Texts are abstract (1, 2, 3).  The embedding model is a black box; the  *)
(* vector of a text is represented by the text it was computed from and    *)
(* the cosine similarity of two vectors by the table CosineSim, in         *)
(* thousandths.  Similarities reported by search are exact rationals       *)
(* [n, d] (n/d).                                                           *)
(***************************************************************************)
EXTENDS Integers, Sequences, FiniteSets, TLC

VARIABLES
  memories,          \* rows of table memories
  vec_memories,      \* rows of virtual table vec_memories
  fts_memories,      \* rows of virtual table fts_memories
  embedding_cache,   \* rows of table embedding_cache (keys: hashed prefixed text)
  nextId,            \* source of fresh record ids (mem_<millis>_<nonce>)
  cacheFaults,       \* failures of embedding_cache statements still to come
  storeFaults,       \* store calls still to fail half-way (after a statement of theirs ran)
  ret                \* what the last command did and returned

vars == <<memories, vec_memories, fts_memories, embedding_cache, nextId, cacheFaults, storeFaults, ret>>

----------------------------------------------------------------------------
(* Bounds of the model *)

MaxIds == 3
MaxFaults == 1
MaxChunks == 2

Texts == 1..3
Containers == {"project:a", "container:b"}
\* paths of markdown files (realpath), in localeCompare order; 0: no source
SourceKeys == {1}
NoSource == 0
Limits == {1, 2}
Thresholds == {500, 800}

----------------------------------------------------------------------------
(* Configuration (config.ts DEFAULTS) and constants of search.ts *)

deduplicationEnabled == TRUE
deduplicationSimilarityThreshold == 900
minVectorSimilarity == 600
RRF_K == 60
NearDupK == 5

----------------------------------------------------------------------------
(* The embedding model and the full-text engine, as black boxes *)

\* cosine similarity (in thousandths) of the vectors of two texts; identical
\* texts give identical vectors (symmetric "clustering: " prefix)
CosineSim(a, b) ==
  IF a = b THEN 1000
  ELSE IF {a, b} = {1, 2} THEN 950
  ELSE IF {a, b} = {1, 3} THEN 700
  ELSE 550

\* the tokens of a text (unicode61 tokenizer)
Tokens(t) ==
  IF t = 1 THEN {"jwt", "auth"}
  ELSE IF t = 2 THEN {"jwt", "auth", "expiry"}
  ELSE {"jwt"}

\* FTS5 MATCH with an implicit AND of the query's tokens
FtsMatch(q, content) == Tokens(q) \subseteq Tokens(content)

\* bm25 rank: rows with fewer tokens beyond the query's come first
Bm25Cost(q, content) == Cardinality(Tokens(content) \ Tokens(q))

----------------------------------------------------------------------------
(* Helpers *)

Min(a, b) == IF a <= b THEN a ELSE b

\* the elements of S as a sequence, best first, under the strict total order Before
OrderBy(S, Before(_, _)) ==
  LET RECURSIVE sel(_)
      sel(R) == IF R = {} THEN <<>>
                ELSE LET x == CHOOSE z \in R : \A y \in R : y = z \/ Before(z, y)
                     IN <<x>> \o sel(R \ {x})
  IN sel(S)

Take(s, n) == IF n >= Len(s) THEN s ELSE SubSeq(s, 1, IF n < 0 THEN 0 ELSE n)

SeqRange(s) == {s[i] : i \in 1..Len(s)}

Db == [memories |-> memories, vec_memories |-> vec_memories, fts_memories |-> fts_memories]

----------------------------------------------------------------------------
(* db.ts: insertMemory *)

\* A faulty variant of insertMemory that forgets the full-text row.
insertMemory_NoFts(db, record, failAt) ==
  LET memRow == [id |-> record.id, content |-> record.content, vector |-> record.vector,
                 container_tag |-> record.containerTag, type |-> record.type,
                 source_key |-> record.sourceKey]
      vecRow == [memory_id |-> record.id, embedding |-> record.vector]
  IN IF failAt # 0 \/ \E m \in db.memories : m.id = record.id
       THEN [db |-> db, threw |-> TRUE]
       ELSE [db |-> [db EXCEPT !.memories = @ \cup {memRow},
                               !.vec_memories = @ \cup {vecRow}], threw |-> FALSE]

\* three INSERT statements, back to back, without a transaction; failAt is
\* the statement that throws (0: none).  A primary-key conflict throws too.
insertMemory(db, record, failAt) ==
  LET memRow == [id |-> record.id, content |-> record.content, vector |-> record.vector,
                 container_tag |-> record.containerTag, type |-> record.type,
                 source_key |-> record.sourceKey]
      vecRow == [memory_id |-> record.id, embedding |-> record.vector]
      ftsRow == [content |-> record.content, memory_id |-> record.id,
                 container_tag |-> record.containerTag]
      fail1 == failAt = 1 \/ \E m \in db.memories : m.id = record.id
      fail2 == failAt = 2 \/ \E v \in db.vec_memories : v.memory_id = record.id
      fail3 == failAt = 3
  IN IF fail1 THEN [db |-> db, threw |-> TRUE]
     ELSE IF fail2
       THEN [db |-> [db EXCEPT !.memories = @ \cup {memRow}], threw |-> TRUE]
     ELSE IF fail3
       THEN [db |-> [db EXCEPT !.memories = @ \cup {memRow},
                               !.vec_memories = @ \cup {vecRow}], threw |-> TRUE]
     ELSE [db |-> [memories |-> db.memories \cup {memRow},
                   vec_memories |-> db.vec_memories \cup {vecRow},
                   fts_memories |-> db.fts_memories \cup {ftsRow}], threw |-> FALSE]

----------------------------------------------------------------------------
(* db.ts: deleteMemory *)

\* A faulty variant of deleteMemory that leaves the full-text row behind.
deleteMemory_KeepsFts(db, memoryId, failAt) ==
  IF ~\E m \in db.memories : m.id = memoryId
    THEN [db |-> db, threw |-> FALSE, result |-> FALSE]
  ELSE IF failAt # 0 THEN [db |-> db, threw |-> TRUE, result |-> FALSE]
  ELSE [db |-> [db EXCEPT !.memories = {m \in @ : m.id # memoryId},
                          !.vec_memories = {v \in @ : v.memory_id # memoryId}],
        threw |-> FALSE, result |-> TRUE]

\* A faulty variant of deleteMemory that answers true for an id it never had.
deleteMemory_AlwaysTrue(db, memoryId, failAt) ==
  IF failAt # 0 /\ \E m \in db.memories : m.id = memoryId
    THEN [db |-> db, threw |-> TRUE, result |-> FALSE]
  ELSE [db |-> [memories |-> {m \in db.memories : m.id # memoryId},
                vec_memories |-> {v \in db.vec_memories : v.memory_id # memoryId},
                fts_memories |-> {f \in db.fts_memories : f.memory_id # memoryId}],
        threw |-> FALSE, result |-> TRUE]

\* A faulty variant of deleteMemory that empties the record's container.
deleteMemory_WholeContainer(db, memoryId, failAt) ==
  LET hit == {m \in db.memories : m.id = memoryId}
      gone == {m.id : m \in {x \in db.memories :
                                \E h \in hit : x.container_tag = h.container_tag}}
  IN IF hit = {} THEN [db |-> db, threw |-> FALSE, result |-> FALSE]
     ELSE IF failAt # 0 THEN [db |-> db, threw |-> TRUE, result |-> FALSE]
     ELSE [db |-> [memories |-> {m \in db.memories : m.id \notin gone},
                   vec_memories |-> {v \in db.vec_memories : v.memory_id \notin gone},
                   fts_memories |-> {f \in db.fts_memories : f.memory_id \notin gone}],
           threw |-> FALSE, result |-> TRUE]

\* returns false when no row has the id; otherwise three DELETE statements
deleteMemory(db, memoryId, failAt) ==
  LET existing == \E m \in db.memories : m.id = memoryId
      noVec == {v \in db.vec_memories : v.memory_id # memoryId}
      noFts == {f \in db.fts_memories : f.memory_id # memoryId}
      noMem == {m \in db.memories : m.id # memoryId}
  IN IF ~existing THEN [db |-> db, threw |-> FALSE, result |-> FALSE]
     ELSE IF failAt = 1 THEN [db |-> db, threw |-> TRUE, result |-> FALSE]
     ELSE IF failAt = 2
       THEN [db |-> [db EXCEPT !.vec_memories = noVec], threw |-> TRUE, result |-> FALSE]
     ELSE IF failAt = 3
       THEN [db |-> [db EXCEPT !.vec_memories = noVec, !.fts_memories = noFts],
             threw |-> TRUE, result |-> FALSE]
     ELSE [db |-> [memories |-> noMem, vec_memories |-> noVec, fts_memories |-> noFts],
           threw |-> FALSE, result |-> TRUE]

----------------------------------------------------------------------------
(* db.ts: findExactDuplicate; search.ts: findNearDuplicates; dedup.ts *)

\* SELECT id FROM memories WHERE content = ? AND container_tag = ? LIMIT 1
\* (0 stands for null; of several matching rows the first by id is returned)
findExactDuplicate(db, content, containerTag) ==
  LET rows == {m \in db.memories : m.content = content /\ m.container_tag = containerTag}
  IN IF rows = {} THEN 0
     ELSE (CHOOSE m \in rows : \A o \in rows : m.id <= o.id).id

\* SELECT memory_id, distance FROM vec_memories WHERE embedding MATCH ? AND k = ?
\* ORDER BY distance: the k nearest rows of the whole table, nearest first
knnQuery(db, queryVector, k) ==
  LET Nearer(x, y) ==
        \/ CosineSim(x.embedding, queryVector) > CosineSim(y.embedding, queryVector)
        \/ /\ CosineSim(x.embedding, queryVector) = CosineSim(y.embedding, queryVector)
           /\ x.memory_id < y.memory_id
  IN Take(OrderBy(db.vec_memories, Nearer), k)

RECURSIVE nearDupLoop(_, _, _, _, _)
nearDupLoop(db, results, queryVector, containerTag, threshold) ==
  IF results = <<>> THEN <<>>
  ELSE LET r == Head(results)
           sim == CosineSim(r.embedding, queryVector)
           row == \E m \in db.memories : m.id = r.memory_id /\ m.container_tag = containerTag
           rest == nearDupLoop(db, Tail(results), queryVector, containerTag, threshold)
       IN IF sim >= threshold /\ row
            THEN <<[id |-> r.memory_id, similarity |-> sim]>> \o rest
            ELSE rest

findNearDuplicates(db, queryVector, containerTag, threshold) ==
  nearDupLoop(db, knnQuery(db, queryVector, NearDupK), queryVector, containerTag, threshold)

\* A faulty variant of checkDuplicate that never finds a duplicate.
checkDuplicate_Off(db, content, vector, containerTag) == [isDuplicate |-> FALSE]

\* A faulty variant of checkDuplicate without the exact tier.
checkDuplicate_NearOnly(db, content, vector, containerTag) ==
  LET nearDups == findNearDuplicates(db, vector, containerTag,
                                     deduplicationSimilarityThreshold)
  IN IF Len(nearDups) > 0
       THEN [isDuplicate |-> TRUE, reason |-> "near duplicate",
             existingId |-> nearDups[1].id, similarity |-> nearDups[1].similarity]
       ELSE [isDuplicate |-> FALSE]

checkDuplicate(db, content, vector, containerTag) ==
  IF ~deduplicationEnabled THEN [isDuplicate |-> FALSE]
  ELSE LET exactId == findExactDuplicate(db, content, containerTag)
           nearDups == findNearDuplicates(db, vector, containerTag,
                                          deduplicationSimilarityThreshold)
       IN IF exactId # 0
            THEN [isDuplicate |-> TRUE, reason |-> "exact duplicate",
                  existingId |-> exactId, similarity |-> 1000]
          ELSE IF Len(nearDups) > 0
            THEN [isDuplicate |-> TRUE, reason |-> "near duplicate",
                  existingId |-> nearDups[1].id, similarity |-> nearDups[1].similarity]
          ELSE [isDuplicate |-> FALSE]

----------------------------------------------------------------------------
(* embed.ts: EmbeddingService.embed *)

\* cache is table embedding_cache, l1 the in-process map.  cacheOk: the
\* statements on embedding_cache succeed (their failures are swallowed);
\* inferOk: model load and inference succeed within the timeout.
embed(cache, l1, text, cacheOk, inferOk) ==
  IF text \in l1
    THEN [cache |-> cache, l1 |-> l1, threw |-> FALSE, vector |-> text, inferred |-> FALSE]
  ELSE IF cacheOk /\ text \in cache
    THEN [cache |-> cache, l1 |-> l1 \cup {text}, threw |-> FALSE, vector |-> text,
          inferred |-> FALSE]
  ELSE IF ~inferOk
    THEN [cache |-> cache, l1 |-> l1, threw |-> TRUE, vector |-> 0, inferred |-> FALSE]
  ELSE [cache |-> IF cacheOk THEN cache \cup {text} ELSE cache,
        l1 |-> l1 \cup {text}, threw |-> FALSE, vector |-> text, inferred |-> TRUE]

----------------------------------------------------------------------------
(* cli.ts: cmdAdd *)

\* The outcomes of the statements on embedding_cache (their failures are
\* swallowed), and the statement of a store call that throws (0: none).  A
\* call that throws at its first statement, or inside a transaction, leaves
\* the tables as they were; one that throws later leaves them half-written.
CacheOutcomes == IF cacheFaults > 0 THEN BOOLEAN ELSE {TRUE}
StoreFaults(n) == IF storeFaults > 0 THEN 0..n ELSE {0, 1}

\* inference runs only on a miss of both cache tiers
InferOutcomes(text, cacheOk) ==
  IF cacheOk /\ text \in embedding_cache THEN {TRUE} ELSE BOOLEAN

CacheCost(cacheOk) == IF cacheOk THEN 0 ELSE 1
StoreCost(failAt) == IF failAt > 1 THEN 1 ELSE 0

cmdAdd(text, containerTag, cacheOk, inferOk, failAt) ==
  /\ \E e \in {embed(embedding_cache, {}, text, cacheOk, inferOk)} :
     \E dedup \in {checkDuplicate(Db, text, e.vector, containerTag)} :
       /\ embedding_cache' = e.cache
       /\ IF e.threw
            THEN /\ failAt = 0
                 /\ UNCHANGED <<memories, vec_memories, fts_memories, nextId, storeFaults>>
                 /\ cacheFaults' = cacheFaults - CacheCost(cacheOk)
                 /\ ret' = [op |-> "add", text |-> text, container |-> containerTag,
                            status |-> "embed-error"]
          ELSE IF dedup.isDuplicate
            THEN /\ failAt = 0
                 /\ UNCHANGED <<memories, vec_memories, fts_memories, nextId, storeFaults>>
                 /\ cacheFaults' = cacheFaults - CacheCost(cacheOk)
                 /\ ret' = [op |-> "add", text |-> text, container |-> containerTag,
                            status |-> "skipped", reason |-> dedup.reason,
                            existingId |-> dedup.existingId,
                            similarity |-> dedup.similarity,
                            inferred |-> e.inferred]
          ELSE /\ nextId <= MaxIds
               /\ \E ins \in {insertMemory(Db,
                                [id |-> nextId, content |-> text, vector |-> e.vector,
                                 containerTag |-> containerTag, type |-> "null",
                                 sourceKey |-> NoSource], failAt)} :
                    /\ memories' = ins.db.memories
                    /\ vec_memories' = ins.db.vec_memories
                    /\ fts_memories' = ins.db.fts_memories
                    /\ ret' = [op |-> "add", text |-> text, container |-> containerTag,
                               status |-> IF ins.threw THEN "store-error" ELSE "stored",
                               id |-> nextId]
               /\ nextId' = nextId + 1
               /\ cacheFaults' = cacheFaults - CacheCost(cacheOk)
               /\ storeFaults' = storeFaults - StoreCost(failAt)

CmdAdd ==
  \E text \in Texts, containerTag \in Containers, cacheOk \in CacheOutcomes,
     failAt \in StoreFaults(3) :
       \E inferOk \in InferOutcomes(text, cacheOk) :
         cmdAdd(text, containerTag, cacheOk, inferOk, failAt)

----------------------------------------------------------------------------
(* cli.ts: cmdAdd under a configuration file *)

\* The vector the model gives for a text: the text when the model's output
\* has the configured dimension, and its negative (a vector of another
\* length, cached under the other model's name) when it has not.
ModelOutput(text, dimOk) == IF dimOk THEN text ELSE 0 - text

\* table vec_memories takes only vectors of the configured dimension, in an
\* INSERT and in a MATCH
WrongSize(vector) == vector < 0

\* cmdAdd where the configuration sets deduplicationEnabled (dedupEnabled)
\* and the model (dimOk: its output has the configured dimension).  No
\* statement checks the dimension before the ones on vec_memories do.
cmdAddConfigured(text, containerTag, dedupEnabled, dimOk) ==
  \E e \in {embed(embedding_cache, {}, ModelOutput(text, dimOk), TRUE, TRUE)} :
    LET exactId == IF dedupEnabled THEN findExactDuplicate(Db, text, containerTag)
                   ELSE 0
        knnThrows == dedupEnabled /\ exactId = 0 /\ WrongSize(e.vector)
        dedup == IF dedupEnabled /\ ~knnThrows
                   THEN checkDuplicate(Db, text, e.vector, containerTag)
                   ELSE [isDuplicate |-> FALSE]
        base == [op |-> "add", text |-> text, container |-> containerTag]
    IN /\ embedding_cache' = e.cache
       /\ UNCHANGED <<cacheFaults, storeFaults>>
       /\ IF knnThrows
            THEN /\ UNCHANGED <<memories, vec_memories, fts_memories, nextId>>
                 /\ ret' = base @@ [status |-> "dimension-error"]
          ELSE IF dedup.isDuplicate
            THEN /\ UNCHANGED <<memories, vec_memories, fts_memories, nextId>>
                 /\ ret' = base @@ [status |-> "skipped", reason |-> dedup.reason,
                                    existingId |-> dedup.existingId,
                                    similarity |-> dedup.similarity,
                                    inferred |-> e.inferred]
          ELSE /\ nextId <= MaxIds
               /\ \E ins \in {insertMemory(Db,
                                [id |-> nextId, content |-> text, vector |-> e.vector,
                                 containerTag |-> containerTag, type |-> "null",
                                 sourceKey |-> NoSource],
                                IF WrongSize(e.vector) THEN 2 ELSE 0)} :
                    /\ memories' = ins.db.memories
                    /\ vec_memories' = ins.db.vec_memories
                    /\ fts_memories' = ins.db.fts_memories
                    /\ ret' = base @@ [status |-> IF ins.threw THEN "dimension-error"
                                                  ELSE "stored",
                                       id |-> nextId]
               /\ nextId' = nextId + 1

CmdAddConfigured ==
  \E text \in Texts, containerTag \in Containers, dedupEnabled \in BOOLEAN,
     dimOk \in BOOLEAN :
       cmdAddConfigured(text, containerTag, dedupEnabled, dimOk)

----------------------------------------------------------------------------
(* embed.ts: withTimeout, embedWithTimeout; cli.ts: cmdAdd awaiting embedText *)

\* A faulty variant of withTimeout that returns the promise it was given.
withTimeout_NoTimer(promise, timerFired) == promise

\* Promise.race of the promise and a timer that rejects: the state of the
\* returned promise, given the state of the embed promise and the timer
withTimeout(promise, timerFired) ==
  IF promise # "pending" THEN promise
  ELSE IF timerFired THEN "rejected" ELSE "pending"

\* cmdAdd is suspended at `await embeddingService.embedText(...)`
Awaiting == ret.op = "add" /\ ret.status = "awaiting"

\* cmdAdd up to its await: a hit in embedding_cache fulfils the promise at
\* once and the command runs on; on a miss the model is loaded and run while
\* the timer is armed
AddBegins ==
  /\ ~Awaiting
  /\ \E text \in Texts, containerTag \in Containers :
       IF withTimeout(IF text \in embedding_cache THEN "fulfilled" ELSE "pending",
                      FALSE) = "fulfilled"
         THEN cmdAdd(text, containerTag, TRUE, TRUE, 0)
       ELSE /\ ret' = [op |-> "add", text |-> text, container |-> containerTag,
                       status |-> "awaiting", timer |-> "armed"]
            /\ UNCHANGED <<memories, vec_memories, fts_memories, embedding_cache,
                           nextId, cacheFaults, storeFaults>>

\* model load and inference complete before the timer fires: cmdAdd resumes
\* with the vector
InferenceCompletes ==
  /\ Awaiting /\ ret.timer = "armed"
  /\ withTimeout("fulfilled", FALSE) = "fulfilled"
  /\ cmdAdd(ret.text, ret.container, TRUE, TRUE, 0)

\* model load or inference throws: cmdAdd resumes with the error
InferenceFails ==
  /\ Awaiting /\ ret.timer = "armed"
  /\ withTimeout("rejected", FALSE) = "rejected"
  /\ cmdAdd(ret.text, ret.container, TRUE, FALSE, 0)

\* the timer of withTimeout fires while the embed promise is pending
TimerFires ==
  /\ Awaiting /\ ret.timer = "armed"
  /\ UNCHANGED <<memories, vec_memories, fts_memories, embedding_cache,
                 nextId, cacheFaults, storeFaults>>
  /\ ret' = IF withTimeout("pending", TRUE) = "rejected"
              THEN [op |-> "add", text |-> ret.text, container |-> ret.container,
                    status |-> "embed-error", reason |-> "timeout"]
            ELSE [ret EXCEPT !.timer = "fired"]

----------------------------------------------------------------------------
(* cli.ts: cmdForget (without --container) *)

cmdForget(id, failAt) ==
  \E del \in {deleteMemory(Db, id, failAt)} :
     /\ failAt # 0 => del.threw
     /\ memories' = del.db.memories
     /\ vec_memories' = del.db.vec_memories
     /\ fts_memories' = del.db.fts_memories
     /\ storeFaults' = storeFaults - StoreCost(failAt)
     /\ ret' = [op |-> "forget", id |-> id,
                status |-> IF del.threw THEN "store-error" ELSE "done",
                deleted |-> del.result]
     /\ UNCHANGED <<embedding_cache, nextId, cacheFaults>>

CmdForget == \E id \in 1..MaxIds, failAt \in StoreFaults(3) : cmdForget(id, failAt)

----------------------------------------------------------------------------
(* cli.ts: cmdForget (with --container) *)

\* the container tag of the record with the id, "" when there is none
getMemoryContainerTag(db, memoryId) ==
  IF \E m \in db.memories : m.id = memoryId
    THEN (CHOOSE m \in db.memories : m.id = memoryId).container_tag
  ELSE ""

\* A faulty variant of cmdForget that never looks at the container.
cmdForgetNamed_NoCheck(id, containerTag, failAt) ==
  \E del \in {deleteMemory(Db, id, failAt)} :
     /\ failAt # 0 => del.threw
     /\ memories' = del.db.memories
     /\ vec_memories' = del.db.vec_memories
     /\ fts_memories' = del.db.fts_memories
     /\ storeFaults' = storeFaults - StoreCost(failAt)
     /\ ret' = [op |-> "forget", id |-> id, container |-> containerTag,
                status |-> IF del.threw THEN "store-error" ELSE "done",
                deleted |-> del.result,
                exit |-> IF del.threw \/ ~del.result THEN 1 ELSE 0]
     /\ UNCHANGED <<embedding_cache, nextId, cacheFaults>>

\* exits with 1 before deleteMemory when the id has no record or the record
\* has another container tag; then as without --container
cmdForgetNamed(id, containerTag, failAt) ==
  \E memoryTag \in {getMemoryContainerTag(Db, id)} :
    IF memoryTag = "" \/ memoryTag # containerTag
      THEN /\ failAt = 0
           /\ ret' = [op |-> "forget", id |-> id, container |-> containerTag,
                      status |-> IF memoryTag = "" THEN "not-found" ELSE "refused",
                      deleted |-> FALSE, exit |-> 1]
           /\ UNCHANGED <<memories, vec_memories, fts_memories, embedding_cache,
                          nextId, cacheFaults, storeFaults>>
    ELSE \E del \in {deleteMemory(Db, id, failAt)} :
           /\ failAt # 0 => del.threw
           /\ memories' = del.db.memories
           /\ vec_memories' = del.db.vec_memories
           /\ fts_memories' = del.db.fts_memories
           /\ storeFaults' = storeFaults - StoreCost(failAt)
           /\ ret' = [op |-> "forget", id |-> id, container |-> containerTag,
                      status |-> IF del.threw THEN "store-error" ELSE "done",
                      deleted |-> del.result,
                      exit |-> IF del.threw \/ ~del.result THEN 1 ELSE 0]
           /\ UNCHANGED <<embedding_cache, nextId, cacheFaults>>

CmdForgetNamed ==
  \E id \in 1..MaxIds, containerTag \in Containers, failAt \in StoreFaults(3) :
    cmdForgetNamed(id, containerTag, failAt)

----------------------------------------------------------------------------
EmptyStore ==
  /\ memories = {}
  /\ vec_memories = {}
  /\ fts_memories = {}
  /\ embedding_cache = {}
  /\ nextId = 1
  /\ ret = [op |-> "none"]

\* every statement that is reached succeeds, unless it is the first of its
\* call or inside a transaction
Init == EmptyStore /\ cacheFaults = 0 /\ storeFaults = 0

\* statements on embedding_cache may fail
InitCacheFaults == EmptyStore /\ cacheFaults = MaxFaults /\ storeFaults = 0

\* any statement of a store call may fail
InitStoreFaults == EmptyStore /\ cacheFaults = 0 /\ storeFaults = MaxFaults

----------------------------------------------------------------------------
(* db.ts: replaceImportedChunksForSource *)

RECURSIVE deleteAll(_, _, _)
\* deleteMemory for each id of ids in turn; failAt counts the calls
deleteAll(db, ids, failAt) ==
  IF ids = <<>> THEN [db |-> db, threw |-> FALSE]
  ELSE LET d == deleteMemory(db, Head(ids), IF failAt = 1 THEN 1 ELSE 0)
       IN IF d.threw THEN [db |-> d.db, threw |-> TRUE]
          ELSE deleteAll(d.db, Tail(ids), failAt - 1)

RECURSIVE insertAll(_, _, _)
\* insertMemory for each record in turn; failAt counts the calls
insertAll(db, records, failAt) ==
  IF records = <<>> THEN [db |-> db, threw |-> FALSE]
  ELSE LET r == insertMemory(db, Head(records), IF failAt = 1 THEN 3 ELSE 0)
       IN IF r.threw THEN [db |-> r.db, threw |-> TRUE]
          ELSE insertAll(r.db, Tail(records), failAt - 1)

\* In one transaction: delete every doc_chunk record of (containerTag,
\* sourceKey), then insert the new records.  failAt is the delete or insert
\* that throws (0: none); a throw rolls the transaction back.
replaceImportedChunksForSource(db, containerTag, sourceKey, records, failAt) ==
  LET old == {m \in db.memories : /\ m.container_tag = containerTag
                                  /\ m.type = "doc_chunk"
                                  /\ m.source_key = sourceKey}
      oldIds == OrderBy({m.id : m \in old}, LAMBDA a, b : a < b)
      del == deleteAll(db, oldIds, failAt)
      ins == insertAll(del.db, records, failAt - Len(oldIds))
  IN IF del.threw \/ ins.threw
       THEN [db |-> db, threw |-> TRUE, deleted |-> 0, inserted |-> 0]
       ELSE [db |-> ins.db, threw |-> FALSE, deleted |-> Len(oldIds),
             inserted |-> Len(records)]

----------------------------------------------------------------------------
(* importer.ts: collectImportChunks; cli.ts: cmdImportMarkdown *)

ChunkLists == UNION {[1..n -> Texts] : n \in 0..MaxChunks}

\* The files under the import path, sorted by path, each with the chunks
\* chunkMarkdown gives for it; a file without chunks is skipped.
collectImportChunks(paths, chunksOf) ==
  LET sorted == OrderBy(paths, LAMBDA a, b : a < b)
      keep == {i \in 1..Len(sorted) : Len(chunksOf[sorted[i]]) # 0}
      nth(j) == CHOOSE i \in keep : Cardinality({k \in keep : k < i}) = j - 1
  IN [j \in 1..Cardinality(keep) |->
        [sourceKey |-> sorted[nth(j)], chunks |-> chunksOf[sorted[nth(j)]]]]

RECURSIVE embedChunks(_, _, _, _, _, _, _)
\* the inner loop of cmdImportMarkdown: one record per chunk of a file
embedChunks(cache, l1, chunks, containerTag, sourceKey, firstId, env) ==
  IF chunks = <<>> THEN [cache |-> cache, l1 |-> l1, threw |-> FALSE, records |-> <<>>]
  ELSE LET e == embed(cache, l1, Head(chunks), env.cacheOk, Head(chunks) # env.inferFails)
       IN IF e.threw THEN [cache |-> e.cache, l1 |-> e.l1, threw |-> TRUE, records |-> <<>>]
          ELSE LET rest == embedChunks(e.cache, e.l1, Tail(chunks), containerTag,
                                       sourceKey, firstId + 1, env)
                   record == [id |-> firstId, content |-> Head(chunks),
                              vector |-> e.vector, containerTag |-> containerTag,
                              type |-> "doc_chunk", sourceKey |-> sourceKey]
               IN [cache |-> rest.cache, l1 |-> rest.l1, threw |-> rest.threw,
                   records |-> IF rest.threw THEN <<>> ELSE <<record>> \o rest.records]

RECURSIVE importFiles_DeleteFirst(_, _, _, _, _, _, _, _)
\* A faulty variant of the loop that deletes a file's old chunks before it
\* embeds the new ones.
importFiles_DeleteFirst(db, cache, l1, files, n, containerTag, firstId, env) ==
  IF n > Len(files)
    THEN [db |-> db, cache |-> cache, nextId |-> firstId, threw |-> FALSE,
          storeThrew |-> FALSE, fileCount |-> n - 1]
  ELSE LET file == files[n]
           del == replaceImportedChunksForSource(db, containerTag, file.sourceKey,
                                                 <<>>, 0)
           emb == embedChunks(cache, l1, file.chunks, containerTag, file.sourceKey,
                              firstId, env)
           rep == replaceImportedChunksForSource(del.db, containerTag, file.sourceKey,
                     emb.records, IF env.failFile = n THEN env.failAt ELSE 0)
       IN IF emb.threw
            THEN [db |-> del.db, cache |-> emb.cache, nextId |-> firstId, threw |-> TRUE,
                  storeThrew |-> FALSE, fileCount |-> n - 1]
          ELSE IF rep.threw
            THEN [db |-> rep.db, cache |-> emb.cache,
                  nextId |-> firstId + Len(file.chunks), threw |-> TRUE,
                  storeThrew |-> TRUE, fileCount |-> n - 1]
          ELSE importFiles_DeleteFirst(rep.db, emb.cache, emb.l1, files, n + 1,
                                       containerTag, firstId + Len(file.chunks), env)

RECURSIVE importFiles(_, _, _, _, _, _, _, _)
\* the outer loop of cmdImportMarkdown; env.failFile is the file whose
\* replacement throws at statement env.failAt
importFiles(db, cache, l1, files, n, containerTag, firstId, env) ==
  IF n > Len(files)
    THEN [db |-> db, cache |-> cache, nextId |-> firstId, threw |-> FALSE,
          storeThrew |-> FALSE, fileCount |-> n - 1]
  ELSE LET file == files[n]
           emb == embedChunks(cache, l1, file.chunks, containerTag, file.sourceKey,
                              firstId, env)
           rep == replaceImportedChunksForSource(db, containerTag, file.sourceKey,
                     emb.records, IF env.failFile = n THEN env.failAt ELSE 0)
       IN IF emb.threw
            THEN [db |-> db, cache |-> emb.cache, nextId |-> firstId, threw |-> TRUE,
                  storeThrew |-> FALSE, fileCount |-> n - 1]
          ELSE IF rep.threw
            THEN [db |-> rep.db, cache |-> emb.cache,
                  nextId |-> firstId + Len(file.chunks), threw |-> TRUE,
                  storeThrew |-> TRUE, fileCount |-> n - 1]
          ELSE importFiles(rep.db, emb.cache, emb.l1, files, n + 1, containerTag,
                           firstId + Len(file.chunks), env)

TotalChunks(paths, chunksOf) ==
  LET RECURSIVE sum(_)
      sum(P) == IF P = {} THEN 0
                ELSE LET p == CHOOSE x \in P : TRUE
                     IN Len(chunksOf[p]) + sum(P \ {p})
  IN sum(paths)

cmdImportMarkdown(paths, chunksOf, containerTag, env) ==
  /\ nextId + TotalChunks(paths, chunksOf) <= MaxIds + 1
  /\ \E run \in {importFiles(Db, embedding_cache, {},
                             collectImportChunks(paths, chunksOf), 1,
                             containerTag, nextId, env)} :
       /\ env.failFile # 0 => run.storeThrew
       /\ env.inferFails # 0 => run.threw /\ ~run.storeThrew
       /\ memories' = run.db.memories
       /\ vec_memories' = run.db.vec_memories
       /\ fts_memories' = run.db.fts_memories
       /\ embedding_cache' = run.cache
       /\ nextId' = run.nextId
       /\ cacheFaults' = cacheFaults - CacheCost(env.cacheOk)
       /\ UNCHANGED storeFaults
       /\ ret' = [op |-> "import",
                  status |-> IF run.storeThrew THEN "store-error"
                             ELSE IF run.threw THEN "embed-error" ELSE "done",
                  container |-> containerTag, paths |-> paths, chunksOf |-> chunksOf,
                  imported |-> run.fileCount]

\* what goes wrong in one import: nothing, the embedding of one text (model
\* error or timeout), or one statement of one file's replacement
ImportFailures(paths) ==
  {[inferFails |-> 0, failFile |-> 0, failAt |-> 0]}
    \cup {[inferFails |-> t, failFile |-> 0, failAt |-> 0] : t \in Texts}
    \cup {[inferFails |-> 0, failFile |-> f, failAt |-> a] :
             f \in 1..Cardinality(paths), a \in 1..(2 * MaxChunks)}

CmdImportMarkdown ==
  \E paths \in (SUBSET SourceKeys) \ {{}}, containerTag \in Containers :
    \E chunksOf \in [paths -> ChunkLists], cacheOk \in CacheOutcomes,
       failure \in ImportFailures(paths) :
         cmdImportMarkdown(paths, chunksOf, containerTag,
                           [cacheOk |-> cacheOk, inferFails |-> failure.inferFails,
                            failFile |-> failure.failFile, failAt |-> failure.failAt])

\* the same command on a directory of two markdown files, each short enough
\* for one chunk, where only the embedding can fail
TreeKeys == {1, 2}
ShortChunkLists == {c \in ChunkLists : Len(c) <= 1}

CmdImportTree ==
  \E paths \in (SUBSET TreeKeys) \ {{}}, containerTag \in Containers :
    \E chunksOf \in [paths -> ShortChunkLists], cacheOk \in CacheOutcomes,
       failure \in {f \in ImportFailures(paths) : f.failFile = 0} :
         cmdImportMarkdown(paths, chunksOf, containerTag,
                           [cacheOk |-> cacheOk, inferFails |-> failure.inferFails,
                            failFile |-> failure.failFile, failAt |-> failure.failAt])

----------------------------------------------------------------------------
(* cli.ts: cmdImportRepoMap *)

\* the source key of the repo-map file ("repo-map:" and its path)
RepoMapKey == 3

\* Every entry is embedded first; one replacement follows the loop.
cmdImportRepoMap(entries, containerTag, env) ==
  /\ nextId + Len(entries) <= MaxIds + 1
  /\ \E emb \in {embedChunks(embedding_cache, {}, entries, containerTag,
                              RepoMapKey, nextId, env)} :
     \E rep \in {replaceImportedChunksForSource(Db, containerTag, RepoMapKey,
                                                 emb.records, env.failAt)} :
       /\ env.inferFails # 0 => emb.threw
       /\ env.failAt # 0 => ~emb.threw /\ rep.threw
       /\ embedding_cache' = emb.cache
       /\ cacheFaults' = cacheFaults - CacheCost(env.cacheOk)
       /\ UNCHANGED storeFaults
       /\ IF entries = <<>> \/ emb.threw
            THEN /\ UNCHANGED <<memories, vec_memories, fts_memories, nextId>>
                 /\ ret' = [op |-> "import-repo-map", container |-> containerTag,
                            entries |-> entries,
                            status |-> IF emb.threw THEN "embed-error" ELSE "empty"]
            ELSE /\ memories' = rep.db.memories
                 /\ vec_memories' = rep.db.vec_memories
                 /\ fts_memories' = rep.db.fts_memories
                 /\ nextId' = nextId + Len(entries)
                 /\ ret' = [op |-> "import-repo-map", container |-> containerTag,
                            entries |-> entries,
                            status |-> IF rep.threw THEN "store-error" ELSE "done"]

\* a repo-map file of up to MaxChunks entries; the embedding of one text
\* may fail
CmdImportRepoMap ==
  \E entries \in ChunkLists, containerTag \in Containers, cacheOk \in CacheOutcomes,
     inferFails \in {0} \cup Texts :
       cmdImportRepoMap(entries, containerTag,
                        [cacheOk |-> cacheOk, inferFails |-> inferFails,
                         failFile |-> 0, failAt |-> 0])

TreeNext == CmdImportTree \/ CmdImportRepoMap

----------------------------------------------------------------------------
(* db.ts: reindexFts; cli.ts: cmdReindex *)

\* A faulty variant of reindexFts that counts the orphaned rows and leaves
\* them in the table.
reindexFts_KeepsOrphans(db, failAt) ==
  LET orphaned == {f \in db.fts_memories : ~\E m \in db.memories : m.id = f.memory_id}
      missing == {m \in db.memories : ~\E f \in db.fts_memories : f.memory_id = m.id}
  IN [db |-> [db EXCEPT !.fts_memories =
                 IF failAt # 0 THEN @
                 ELSE @ \cup {[content |-> m.content, memory_id |-> m.id,
                               container_tag |-> m.container_tag] : m \in missing}],
      threw |-> failAt # 0,
      added |-> Cardinality(missing), removed |-> Cardinality(orphaned)]

\* the orphaned rows are deleted, then the missing rows inserted, one
\* statement each; failAt is the statement that throws (0: none)
reindexFts(db, failAt) ==
  LET orphaned == OrderBy({f \in db.fts_memories :
                             ~\E m \in db.memories : m.id = f.memory_id},
                          LAMBDA a, b : \/ a.memory_id < b.memory_id
                                        \/ /\ a.memory_id = b.memory_id
                                           /\ a.content < b.content)
      nDel == IF failAt = 0 THEN Len(orphaned) ELSE Min(failAt - 1, Len(orphaned))
      afterDel == {f \in db.fts_memories :
                     ~\E i \in 1..nDel : orphaned[i].memory_id = f.memory_id}
      missing == OrderBy({m \in db.memories :
                            ~\E f \in afterDel : f.memory_id = m.id},
                         LAMBDA a, b : a.id < b.id)
      nIns == IF failAt = 0 THEN Len(missing)
              ELSE IF failAt <= Len(orphaned) THEN 0
              ELSE Min(failAt - 1 - Len(orphaned), Len(missing))
      afterIns == afterDel \cup
                    {[content |-> missing[i].content, memory_id |-> missing[i].id,
                      container_tag |-> missing[i].container_tag] : i \in 1..nIns}
  IN [db |-> [db EXCEPT !.fts_memories = afterIns],
      threw |-> failAt # 0,
      added |-> Len(missing), removed |-> Len(orphaned)]

cmdReindex(failAt) ==
  \E r \in {reindexFts(Db, failAt)} :
     /\ failAt # 0 => failAt <= r.added + r.removed
     /\ fts_memories' = r.db.fts_memories
     /\ storeFaults' = storeFaults - StoreCost(failAt)
     /\ ret' = [op |-> "reindex", status |-> IF r.threw THEN "store-error" ELSE "done",
                added |-> r.added, removed |-> r.removed]
     /\ UNCHANGED <<memories, vec_memories, embedding_cache, nextId, cacheFaults>>

CmdReindex == \E failAt \in StoreFaults(MaxIds) : cmdReindex(failAt)

----------------------------------------------------------------------------
(* search.ts: reciprocalRankFusion, searchMemories; cli.ts: cmdSearch *)

\* exact rationals [n, d] (n/d, d > 0) for the floating-point scores
Frac(n, d) == [n |-> n, d |-> d]
FracAdd(a, b) == Frac(a.n * b.d + b.n * a.d, a.d * b.d)
FracDiv(a, b) == Frac(a.n * b.d, a.d * b.n)
FracLess(a, b) == a.n * b.d < b.n * a.d
FracEq(a, b) == a.n * b.d = b.n * a.d
FracMin(a, b) == IF FracLess(b, a) THEN b ELSE a

\* the maps are functions from ids to ranks (0-based)
reciprocalRankFusion(vectorRankings, bm25Rankings, k) ==
  LET afterVector == [id \in DOMAIN vectorRankings |-> Frac(1, k + vectorRankings[id])]
      currentScore(id) == IF id \in DOMAIN afterVector THEN afterVector[id] ELSE Frac(0, 1)
  IN [id \in DOMAIN vectorRankings \cup DOMAIN bm25Rankings |->
        IF id \in DOMAIN bm25Rankings
          THEN FracAdd(currentScore(id), Frac(1, k + bm25Rankings[id]))
          ELSE afterVector[id]]

\* SELECT memory_id, rank FROM fts_memories WHERE fts_memories MATCH ?
\* [AND container_tag = ?] ORDER BY rank LIMIT ?
ftsQuery(db, queryText, containerTag, limit) ==
  LET rows == {f \in db.fts_memories :
                 /\ FtsMatch(queryText, f.content)
                 /\ containerTag # "" => f.container_tag = containerTag}
      Better(x, y) ==
        \/ Bm25Cost(queryText, x.content) < Bm25Cost(queryText, y.content)
        \/ /\ Bm25Cost(queryText, x.content) = Bm25Cost(queryText, y.content)
           /\ x.memory_id < y.memory_id
  IN Take(OrderBy(rows, Better), limit)

\* A faulty variant of fetchRows that forgets the container condition.
fetchRows_Unscoped(db, ids, containerTag) ==
  OrderBy({m \in db.memories : m.id \in ids}, LAMBDA a, b : a.id < b.id)

\* SELECT ... FROM memories WHERE id IN (...) [AND container_tag = ?]
fetchRows(db, ids, containerTag) ==
  OrderBy({m \in db.memories :
             /\ m.id \in ids
             /\ containerTag # "" => m.container_tag = containerTag},
          LAMBDA a, b : a.id < b.id)

\* A faulty variant of similarityFor that scales every fused score by 2/k,
\* so that a full-text-only hit never exceeds one half.
similarityFor_OneScale(rrfScore, inBm25, hasVector, cosineSim) ==
  IF inBm25 THEN FracMin(FracDiv(rrfScore, Frac(2, RRF_K)), Frac(1, 1))
  ELSE IF hasVector THEN Frac(cosineSim, 1000)
  ELSE Frac(0, 1)

\* A faulty variant of similarityFor that normalises a vector-only hit by
\* 2/k as well, so that it never exceeds one half.
similarityFor_HalfFloor(rrfScore, inBm25, hasVector, cosineSim) ==
  IF inBm25 /\ ~hasVector
    THEN FracMin(FracDiv(rrfScore, Frac(1, RRF_K)), Frac(1, 1))
    ELSE FracMin(FracDiv(rrfScore, Frac(2, RRF_K)), Frac(1, 1))

\* the similarity reported for a fetched row
similarityFor(rrfScore, inBm25, hasVector, cosineSim) ==
  LET maxRrfScore == Frac(2, RRF_K)
  IN IF inBm25 /\ hasVector
       THEN FracMin(FracDiv(rrfScore, maxRrfScore), Frac(1, 1))
     ELSE IF inBm25
       THEN FracMin(FracDiv(rrfScore, Frac(1, RRF_K)), Frac(1, 1))
     ELSE IF hasVector
       THEN Frac(cosineSim, 1000)
     ELSE Frac(0, 1)

\* A faulty variant of rankResults that truncates without sorting first.
rankResults_Unsorted(results, minSimilarity, maxResults) ==
  Take(SelectSeq(results,
         LAMBDA r : ~FracLess(r.similarity, Frac(minSimilarity, 1000))),
       maxResults)

\* results.sort((a, b) => b.similarity - a.similarity) (stable), then
\* .filter((r) => r.similarity >= minSimilarity).slice(0, maxResults)
rankResults(results, minSimilarity, maxResults) ==
  LET at == [i \in 1..Len(results) |-> [r |-> results[i], pos |-> i]]
      sorted == OrderBy(SeqRange(at),
                  LAMBDA a, b : \/ FracLess(b.r.similarity, a.r.similarity)
                                \/ /\ FracEq(a.r.similarity, b.r.similarity)
                                   /\ a.pos < b.pos)
      kept == SelectSeq(sorted,
                LAMBDA x : ~FracLess(x.r.similarity, Frac(minSimilarity, 1000)))
      out == Take(kept, maxResults)
  IN [i \in 1..Len(out) |-> out[i].r]

\* containerTag "" stands for null (unscoped); ftsOk: the MATCH query does
\* not raise
searchMemories(db, queryVector, containerTag, queryText, limit, threshold, ftsOk) ==
  LET maxResults == limit
      minSimilarity == threshold
      minVectorSim == minVectorSimilarity
      k == maxResults * 4
      rawVectorResults == knnQuery(db, queryVector, k)
      gated == SelectSeq(rawVectorResults,
                 LAMBDA r : CosineSim(r.embedding, queryVector) >= minVectorSim)
      vectorResultMap ==
        [id \in {gated[i].memory_id : i \in 1..Len(gated)} |->
           LET i == CHOOSE j \in 1..Len(gated) : gated[j].memory_id = id
           IN [rank |-> i - 1, cosineSim |-> CosineSim(gated[i].embedding, queryVector)]]
      bm25Results == IF ftsOk THEN ftsQuery(db, queryText, containerTag, maxResults * 4)
                     ELSE <<>>
      bm25Rankings ==
        [id \in {bm25Results[i].memory_id : i \in 1..Len(bm25Results)} |->
           (CHOOSE j \in 1..Len(bm25Results) :
              /\ bm25Results[j].memory_id = id
              /\ \A l \in 1..Len(bm25Results) : bm25Results[l].memory_id = id => l <= j) - 1]
      vectorRankings == [id \in DOMAIN vectorResultMap |-> vectorResultMap[id].rank]
      rrfScores == reciprocalRankFusion(vectorRankings, bm25Rankings, RRF_K)
      rows == fetchRows(db, DOMAIN rrfScores, containerTag)
      results == [i \in 1..Len(rows) |->
                    [id |-> rows[i].id,
                     similarity |->
                       similarityFor(rrfScores[rows[i].id],
                                     rows[i].id \in DOMAIN bm25Rankings,
                                     rows[i].id \in DOMAIN vectorResultMap,
                                     IF rows[i].id \in DOMAIN vectorResultMap
                                       THEN vectorResultMap[rows[i].id].cosineSim
                                       ELSE 0)]]
  IN IF DOMAIN rrfScores = {} THEN <<>>
     ELSE rankResults(results, minSimilarity, maxResults)

cmdSearch(query, limit, containerTag, threshold, cacheOk, inferOk, ftsOk) ==
  \E e \in {embed(embedding_cache, {}, query, cacheOk, inferOk)} :
     /\ embedding_cache' = e.cache
     /\ cacheFaults' = cacheFaults - CacheCost(cacheOk)
     /\ ret' = IF e.threw THEN [op |-> "search", status |-> "embed-error"]
               ELSE [op |-> "search", status |-> "done", query |-> query,
                     container |-> containerTag, limit |-> limit,
                     threshold |-> threshold, ftsOk |-> ftsOk,
                     results |-> searchMemories(Db, e.vector, containerTag, query,
                                                limit, threshold, ftsOk)]
     /\ UNCHANGED <<memories, vec_memories, fts_memories, nextId, storeFaults>>

CmdSearch ==
  \E query \in Texts, limit \in Limits, containerTag \in Containers \cup {""},
     threshold \in Thresholds, cacheOk \in CacheOutcomes, ftsOk \in BOOLEAN :
       \E inferOk \in InferOutcomes(query, cacheOk) :
         cmdSearch(query, limit, containerTag, threshold, cacheOk, inferOk, ftsOk)

\* A store to search: one markdown file imported into each container (the
\* chunks of the first get the ids from 1, those of the second the next ones).
SearchInit ==
  \E first \in ChunkLists, second \in ChunkLists :
    /\ Len(first) + Len(second) <= MaxIds
    /\ LET none == [cacheOk |-> TRUE, inferFails |-> 0, failFile |-> 0, failAt |-> 0]
           empty == [memories |-> {}, vec_memories |-> {}, fts_memories |-> {}]
       IN \E one \in {importFiles(empty, {}, {},
                            collectImportChunks({1}, [p \in {1} |-> first]),
                            1, "project:a", 1, none)} :
          \E two \in {importFiles(one.db, one.cache, {},
                            collectImportChunks({1}, [p \in {1} |-> second]),
                            1, "container:b", one.nextId, none)} :
            /\ memories = two.db.memories
            /\ vec_memories = two.db.vec_memories
            /\ fts_memories = two.db.fts_memories
            /\ embedding_cache = two.cache
            /\ nextId = two.nextId
    /\ cacheFaults = 0
    /\ storeFaults = 0
    /\ ret = [op |-> "none"]

Next ==
  \/ CmdAdd
  \/ CmdForget
  \/ CmdImportMarkdown
  \/ CmdReindex

Spec == Init /\ [][Next]_vars

\* the commands on the user's own memories, whose store calls run outside any
\* transaction
UserNext == CmdAdd \/ CmdForget \/ CmdReindex
CacheFaultSpec == InitCacheFaults /\ [][UserNext]_vars
StoreFaultSpec == InitStoreFaults /\ [][UserNext]_vars
SearchSpec == SearchInit /\ [][CmdSearch]_vars

\* A store in which another container is crowded: one markdown file of
\* NearDupK chunks was imported into project:a before anything else (its
\* records have the ids below 1).  The chunks are taken in one order, texts
\* ascending: the order of the crowd's rows among themselves changes nothing
\* for the other container.
CrowdLists ==
  {c \in [1..NearDupK -> Texts] : \A i \in 1..(NearDupK - 1) : c[i] <= c[i + 1]}

CrowdInit ==
  \E crowd \in CrowdLists :
    /\ LET none == [cacheOk |-> TRUE, inferFails |-> 0, failFile |-> 0, failAt |-> 0]
           empty == [memories |-> {}, vec_memories |-> {}, fts_memories |-> {}]
       IN \E run \in {importFiles(empty, {}, {},
                            collectImportChunks({1}, [p \in {1} |-> crowd]),
                            1, "project:a", 1 - NearDupK, none)} :
            /\ memories = run.db.memories
            /\ vec_memories = run.db.vec_memories
            /\ fts_memories = run.db.fts_memories
            /\ embedding_cache = run.cache
            /\ nextId = run.nextId
    /\ cacheFaults = 0
    /\ storeFaults = 0
    /\ ret = [op |-> "none"]

CrowdSpec == CrowdInit /\ [][UserNext]_vars

\* A store to search next to a crowded container: a crowd of one text in
\* project:a, then one markdown file of MaxChunks chunks imported into
\* container:b.
UniformCrowds == {c \in CrowdLists : c[1] = c[NearDupK]}

CrowdSearchInit ==
  \E crowd \in UniformCrowds, second \in ChunkLists :
    /\ Len(second) = MaxChunks
    /\ LET none == [cacheOk |-> TRUE, inferFails |-> 0, failFile |-> 0, failAt |-> 0]
           empty == [memories |-> {}, vec_memories |-> {}, fts_memories |-> {}]
       IN \E one \in {importFiles(empty, {}, {},
                            collectImportChunks({1}, [p \in {1} |-> crowd]),
                            1, "project:a", 1 - NearDupK, none)} :
          \E two \in {importFiles(one.db, one.cache, {},
                            collectImportChunks({1}, [p \in {1} |-> second]),
                            1, "container:b", one.nextId, none)} :
            /\ memories = two.db.memories
            /\ vec_memories = two.db.vec_memories
            /\ fts_memories = two.db.fts_memories
            /\ embedding_cache = two.cache
            /\ nextId = two.nextId
    /\ cacheFaults = 0
    /\ storeFaults = 0
    /\ ret = [op |-> "none"]

CrowdSearchSpec == CrowdSearchInit /\ [][CmdSearch]_vars

\* A store to re-import into: a user-added record in project:a, then the
\* chunk of file 2 in project:a, the chunk of file 1 in container:b and the
\* chunk of file 1 in project:a, each from an earlier import.
TreeInit ==
  \E userText \in Texts, chunkText \in Texts :
    /\ userText = chunkText
    /\ LET none == [cacheOk |-> TRUE, inferFails |-> 0, failFile |-> 0, failAt |-> 0]
           empty == [memories |-> {}, vec_memories |-> {}, fts_memories |-> {}]
           file(k) == collectImportChunks({k}, [p \in {k} |-> <<chunkText>>])
       IN \E added \in {insertMemory(empty,
                           [id |-> -2, content |-> userText, vector |-> userText,
                            containerTag |-> "project:a", type |-> "null",
                            sourceKey |-> NoSource], 0)} :
          \E one \in {importFiles(added.db, {userText}, {}, file(2), 1,
                                  "project:a", -1, none)} :
          \E two \in {importFiles(one.db, one.cache, {}, file(1), 1,
                                  "container:b", one.nextId, none)} :
          \E three \in {importFiles(two.db, two.cache, {}, file(1), 1,
                                    "project:a", two.nextId, none)} :
            /\ memories = three.db.memories
            /\ vec_memories = three.db.vec_memories
            /\ fts_memories = three.db.fts_memories
            /\ embedding_cache = three.cache
            /\ nextId = three.nextId
    /\ cacheFaults = 0
    /\ storeFaults = 0
    /\ ret = [op |-> "none"]

TreeSpec == TreeInit /\ [][TreeNext]_vars

\* add and forget --container, where a statement of deleteMemory may fail
ForgetNext == CmdAdd \/ CmdForgetNamed

ForgetSpec == InitStoreFaults /\ [][ForgetNext]_vars

\* Any two tables memories and fts_memories to reindex: up to two records,
\* and full-text rows that may be missing, orphaned, stale or doubled.
ReindexRecords ==
  {[id |-> i, content |-> t, vector |-> t, container_tag |-> c, type |-> "null",
    source_key |-> NoSource] : i \in 1..2, t \in 1..2, c \in Containers}

ReindexFtsRows == [content : 1..2, memory_id : 1..2, container_tag : {"project:a"}]

ReindexInit ==
  \E mem \in SUBSET ReindexRecords, fts \in SUBSET ReindexFtsRows :
    /\ \A m, n \in mem : m.id = n.id => m = n
    /\ memories = mem
    /\ vec_memories = {[memory_id |-> m.id, embedding |-> m.vector] : m \in mem}
    /\ fts_memories = fts
    /\ embedding_cache = {m.content : m \in mem}
    /\ nextId = 3
    /\ cacheFaults = 0
    /\ storeFaults = MaxFaults
    /\ ret = [op |-> "none"]

ReindexSpec == ReindexInit /\ [][CmdReindex]_vars

\* add under any configuration of deduplication and model
ConfiguredSpec == Init /\ [][CmdAddConfigured]_vars

\* add, step by step around its await; the event loop runs a timer that is
\* due, while model load and inference may never complete
EmbedNext == AddBegins \/ InferenceCompletes \/ InferenceFails \/ TimerFires

EmbedSpec == Init /\ [][EmbedNext]_vars /\ WF_vars(TimerFires)

----------------------------------------------------------------------------
(* jsonc.ts: stripJsoncComments *)

\* The characters of a configuration file: quote, slash, star, newline,
\* comma, closing brace, space, backslash and any other character.
MaxContent == 4
JsonChars == {"\"", "/", "*", "\n", ",", "}", " ", "\\", "a"}
JsonContents == UNION {[1..n -> JsonChars] : n \in 0..MaxContent}

\* the character at index i, "" past the end (undefined in the source)
CharAt(content, i) == IF i >= 1 /\ i <= Len(content) THEN content[i] ELSE ""

\* the number of backslashes right before index i
RECURSIVE backslashCount(_, _)
backslashCount(content, i) ==
  IF CharAt(content, i - 1) = "\\" THEN 1 + backslashCount(content, i - 1) ELSE 0

\* The loop of stripJsoncComments from index i on: for every index the state
\* the loop is in when it reads the character ("string", "comment", "plain")
\* and whether it appends the character to result.
RECURSIVE scanJsonc(_, _, _, _, _)
scanJsonc(content, i, inString, inSingleLineComment, inMultiLineComment) ==
  IF i > Len(content) THEN <<>>
  ELSE LET char == content[i]
           nextChar == CharAt(content, i + 1)
           inComment == inSingleLineComment \/ inMultiLineComment
           cell(k, keep) == [class |-> k, kept |-> keep]
       IN IF ~inComment /\ char = "\""
            THEN LET toggles == backslashCount(content, i) % 2 = 0
                     now == IF toggles THEN ~inString ELSE inString
                 IN <<cell(IF inString \/ now THEN "string" ELSE "plain", TRUE)>>
                      \o scanJsonc(content, i + 1, now, FALSE, FALSE)
          ELSE IF inString
            THEN <<cell("string", TRUE)>>
                   \o scanJsonc(content, i + 1, TRUE, inSingleLineComment,
                                inMultiLineComment)
          ELSE IF ~inComment /\ char = "/" /\ nextChar = "/"
            THEN <<cell("comment", FALSE), cell("comment", FALSE)>>
                   \o scanJsonc(content, i + 2, FALSE, TRUE, FALSE)
          ELSE IF ~inComment /\ char = "/" /\ nextChar = "*"
            THEN <<cell("comment", FALSE), cell("comment", FALSE)>>
                   \o scanJsonc(content, i + 2, FALSE, FALSE, TRUE)
          ELSE IF inSingleLineComment
            THEN <<cell("comment", char = "\n")>>
                   \o scanJsonc(content, i + 1, FALSE, char # "\n", FALSE)
          ELSE IF inMultiLineComment
            THEN IF char = "*" /\ nextChar = "/"
                   THEN <<cell("comment", FALSE), cell("comment", FALSE)>>
                          \o scanJsonc(content, i + 2, FALSE, FALSE, FALSE)
                 ELSE <<cell("comment", char = "\n")>>
                        \o scanJsonc(content, i + 1, FALSE, FALSE, TRUE)
          ELSE <<cell("plain", TRUE)>>
                 \o scanJsonc(content, i + 1, FALSE, FALSE, FALSE)

\* the subsequence of s at the indices of keep, in order
RECURSIVE SelectAt(_, _, _)
SelectAt(s, keep, i) ==
  IF i > Len(s) THEN <<>>
  ELSE (IF i \in keep THEN <<s[i]>> ELSE <<>>) \o SelectAt(s, keep, i + 1)

IsSpace(c) == c \in {" ", "\n"}

\* result.replace(/,\s*([}\]])/g, "$1"): every comma that is followed by
\* white space and a closing bracket goes, and so does that white space
replaceTrailingCommas(result) ==
  LET closes(p) == \E q \in (p + 1)..Len(result) :
                     /\ result[q] = "}"
                     /\ \A r \in (p + 1)..(q - 1) : IsSpace(result[r])
      comma(p) == result[p] = "," /\ closes(p)
      gone(p) == \/ comma(p)
                 \/ /\ IsSpace(result[p])
                    /\ closes(p)
                    /\ \E c \in 1..(p - 1) :
                         /\ result[c] = ","
                         /\ \A r \in (c + 1)..p : IsSpace(result[r])
  IN SelectAt(result, {p \in 1..Len(result) : ~gone(p)}, 1)

stripJsoncComments(content) ==
  LET cells == scanJsonc(content, 1, FALSE, FALSE, FALSE)
      result == SelectAt(content, {i \in 1..Len(content) : cells[i].kept}, 1)
  IN replaceTrailingCommas(result)

\* the configuration loader reads a file and strips it
LoadConfig ==
  /\ ret.op = "config-file"
  /\ ret' = [op |-> "config", content |-> ret.content,
             stripped |-> stripJsoncComments(ret.content)]
  /\ UNCHANGED <<memories, vec_memories, fts_memories, embedding_cache, nextId,
                 cacheFaults, storeFaults>>

JsoncInit ==
  /\ memories = {} /\ vec_memories = {} /\ fts_memories = {}
  /\ embedding_cache = {} /\ nextId = 1
  /\ cacheFaults = 0 /\ storeFaults = 0
  /\ \E content \in JsonContents : ret = [op |-> "config-file", content |-> content]

JsoncSpec == JsoncInit /\ [][LoadConfig]_vars

----------------------------------------------------------------------------
(* embed.ts: warmup, initializeModel, ensureReady under concurrent embed calls *)

\* The embed calls of one process that miss both caches.  The process is
\* single-threaded: a call runs until its next await.  ret holds the
\* service (isWarmedUp, initPromise, pipe), every promise initializeModel
\* returned, and for each call where it is suspended and on which promise.
MaxCallers == 3
Callers == 1..MaxCallers

\* initializeModel up to its await of pipeline(): a construction starts and
\* a new pending promise stands for it
initializeModel(s) ==
  [s EXCEPT !.promises = Append(@, "pending"), !.constructions = @ + 1]

\* the promise warmup returns (0: none, already warmed up)
warmup(s) ==
  IF s.isWarmedUp THEN [s |-> s, awaits |-> 0]
  ELSE IF s.initPromise # 0 THEN [s |-> s, awaits |-> s.initPromise]
  ELSE LET t == initializeModel(s)
       IN [s |-> [t EXCEPT !.initPromise = Len(t.promises)],
           awaits |-> Len(t.promises)]

\* A faulty variant of ensureReady that starts the model whenever it is not
\* warmed up yet.
ensureReady_Unguarded(s) ==
  IF ~s.isWarmedUp
    THEN LET t == initializeModel(s)
         IN [s |-> [t EXCEPT !.initPromise = Len(t.promises)],
             awaits |-> Len(t.promises), at |-> "warmup"]
  ELSE [s |-> s, awaits |-> s.initPromise, at |-> "init"]

\* ensureReady up to its first await: of warmup(), or of initPromise
ensureReady(s) ==
  IF ~s.isWarmedUp /\ s.initPromise = 0
    THEN LET w == warmup(s) IN [s |-> w.s, awaits |-> w.awaits, at |-> "warmup"]
  ELSE [s |-> s, awaits |-> s.initPromise, at |-> "init"]

EmbedProcess == ret.op = "embed-calls"

\* embed(text) misses L1 and L2 and enters ensureReady
EmbedCalled(c) ==
  /\ EmbedProcess /\ ret.pc[c] = "idle"
  /\ \E r \in {ensureReady(ret)} :
       ret' = [r.s EXCEPT !.pc[c] = r.at, !.on[c] = r.awaits]
  /\ UNCHANGED <<memories, vec_memories, fts_memories, embedding_cache, nextId,
                 cacheFaults, storeFaults>>

\* pipeline() returns: initializeModel sets pipe and isWarmedUp
InitSucceeds ==
  /\ EmbedProcess
  /\ \E p \in 1..Len(ret.promises) :
       /\ ret.promises[p] = "pending"
       /\ ret' = [ret EXCEPT !.promises[p] = "fulfilled", !.pipe = TRUE,
                            !.isWarmedUp = TRUE]
  /\ UNCHANGED <<memories, vec_memories, fts_memories, embedding_cache, nextId,
                 cacheFaults, storeFaults>>

\* pipeline() throws: initializeModel clears initPromise and rethrows
InitFails ==
  /\ EmbedProcess
  /\ \E p \in 1..Len(ret.promises) :
       /\ ret.promises[p] = "pending"
       /\ ret' = [ret EXCEPT !.promises[p] = "rejected", !.initPromise = 0,
                            !.failures = @ + 1]
  /\ UNCHANGED <<memories, vec_memories, fts_memories, embedding_cache, nextId,
                 cacheFaults, storeFaults>>

\* a call resumes after the promise it awaits has settled: ensureReady goes
\* on to await initPromise, or returns and embed runs the pipeline
CallResumes(c) ==
  /\ EmbedProcess /\ ret.pc[c] \in {"warmup", "init"}
  /\ ret.on[c] = 0 \/ ret.promises[ret.on[c]] # "pending"
  /\ ret' = IF ret.on[c] # 0 /\ ret.promises[ret.on[c]] = "rejected"
              THEN [ret EXCEPT !.pc[c] = "failed"]
            ELSE IF ret.pc[c] = "warmup" /\ ret.initPromise # 0
              THEN [ret EXCEPT !.pc[c] = "init", !.on[c] = ret.initPromise]
            ELSE [ret EXCEPT !.pc[c] = "inferred",
                             !.inferredUnready = @ \/ ~ret.pipe]
  /\ UNCHANGED <<memories, vec_memories, fts_memories, embedding_cache, nextId,
                 cacheFaults, storeFaults>>

EmbedCallsInit ==
  /\ memories = {} /\ vec_memories = {} /\ fts_memories = {}
  /\ embedding_cache = {} /\ nextId = 1
  /\ cacheFaults = 0 /\ storeFaults = 0
  /\ ret = [op |-> "embed-calls", isWarmedUp |-> FALSE, initPromise |-> 0,
            pipe |-> FALSE, promises |-> <<>>, constructions |-> 0,
            failures |-> 0, inferredUnready |-> FALSE,
            pc |-> [c \in Callers |-> "idle"], on |-> [c \in Callers |-> 0]]

EmbedCallsNext ==
  \/ \E c \in Callers : EmbedCalled(c)
  \/ InitSucceeds
  \/ InitFails
  \/ \E c \in Callers : CallResumes(c)

EmbedCallsSpec == EmbedCallsInit /\ [][EmbedCallsNext]_vars

----------------------------------------------------------------------------
(* cli.ts: cmdAdd run by two processes on one database file *)

\* Each process has its own connection (db.ts getDb).  cmdAdd opens no
\* transaction, so the reads of checkDuplicate and each INSERT of
\* insertMemory are statements of their own, and the statements of the two
\* processes interleave.  ret holds the content and container both were
\* given and each process's position.
Procs == {1, 2}

\* ids are mem_<time>_<random>: distinct for the two processes and new
AddRaceId(p) == nextId + p - 1

AddRaceRecord(p) ==
  [id |-> AddRaceId(p), content |-> ret.text, vector |-> ret.text,
   containerTag |-> ret.container, type |-> "null", sourceKey |-> NoSource]

\* the three rows insertMemory writes for a record
AddRaceRows(p) ==
  insertMemory([memories |-> {}, vec_memories |-> {}, fts_memories |-> {}],
               AddRaceRecord(p), 0).db

AddRace == ret.op = "add-race"

\* embedText, then checkDuplicate on the tables as they are now
AddChecks(p) ==
  /\ AddRace /\ ret.pc[p] = "start"
  /\ \E e \in {embed(embedding_cache, {}, ret.text, TRUE, TRUE)} :
     \E dedup \in {checkDuplicate(Db, ret.text, e.vector, ret.container)} :
       /\ embedding_cache' = e.cache
       /\ ret' = [ret EXCEPT !.pc[p] = IF dedup.isDuplicate THEN "skipped"
                                       ELSE "memories"]
  /\ UNCHANGED <<memories, vec_memories, fts_memories, nextId, cacheFaults,
                 storeFaults>>

\* the next INSERT of insertMemory
AddInserts(p) ==
  /\ AddRace /\ ret.pc[p] \in {"memories", "vec_memories", "fts_memories"}
  /\ \E rows \in {AddRaceRows(p)} :
       CASE ret.pc[p] = "memories" ->
              /\ memories' = memories \cup rows.memories
              /\ ret' = [ret EXCEPT !.pc[p] = "vec_memories"]
              /\ UNCHANGED <<vec_memories, fts_memories>>
         [] ret.pc[p] = "vec_memories" ->
              /\ vec_memories' = vec_memories \cup rows.vec_memories
              /\ ret' = [ret EXCEPT !.pc[p] = "fts_memories"]
              /\ UNCHANGED <<memories, fts_memories>>
         [] ret.pc[p] = "fts_memories" ->
              /\ fts_memories' = fts_memories \cup rows.fts_memories
              /\ ret' = [ret EXCEPT !.pc[p] = "stored"]
              /\ UNCHANGED <<memories, vec_memories>>
  /\ UNCHANGED <<embedding_cache, nextId, cacheFaults, storeFaults>>

\* the store before the two commands: empty, or one record
AddRaceInit ==
  /\ \E before \in {<<>>} \cup {<<[id |-> 0, content |-> t, vector |-> t,
                                containerTag |-> c, type |-> "null",
                                sourceKey |-> NoSource]>> :
                              t \in Texts, c \in Containers} :
     \E db \in {insertAll([memories |-> {}, vec_memories |-> {},
                           fts_memories |-> {}], before, 0).db} :
       /\ memories = db.memories
       /\ vec_memories = db.vec_memories
       /\ fts_memories = db.fts_memories
       /\ embedding_cache = {before[i].content : i \in DOMAIN before}
  /\ nextId = 1 /\ cacheFaults = 0 /\ storeFaults = 0
  /\ \E text \in Texts, containerTag \in Containers :
       ret = [op |-> "add-race", text |-> text, container |-> containerTag,
              pc |-> [p \in Procs |-> "start"]]

AddRaceNext == \E p \in Procs : AddChecks(p) \/ AddInserts(p)

AddRaceSpec == AddRaceInit /\ [][AddRaceNext]_vars

----------------------------------------------------------------------------
(* embed.ts: EmbeddingService.embed with its two cache tiers *)

\* MAX_CACHE_SIZE is 100 in embed.ts; the model keeps the L1 map this small
\* so that three texts fill it.  MaxPending bounds the calls that wait for
\* inference at one time.
MaxCacheSize == 2
MaxPending == 2
Models == {1, 2}

\* createHash("sha256").update(text).digest("hex"): one digest per text
contentHash_Colliding(text) == <<"sha256", text % 2>>
contentHash(text) == <<"sha256", text>>

\* the pipeline's pooled, normalised output for a text under a model id
inference(model, text) == [model |-> model, text |-> text]

\* null, where a vector is expected
NoVector == [model |-> 0, text |-> 0]

\* new Uint8Array(vector.buffer) and new Float32Array(buffer, offset, n / 4)
vectorBuffer(vector) == [bytes |-> vector]
fromBuffer(embedding) == embedding.bytes

\* Map: entries in insertion order; set on a present key keeps its place
MapKeys(cache) == [i \in 1..Len(cache) |-> cache[i].key]
MapHas(cache, key) == \E i \in 1..Len(cache) : cache[i].key = key
MapGet(cache, key) == cache[CHOOSE i \in 1..Len(cache) : cache[i].key = key].value
MapDelete(cache, key) == SelectSeq(cache, LAMBDA e : e.key # key)
MapSet(cache, key, value) ==
  IF MapHas(cache, key)
    THEN [i \in 1..Len(cache) |->
            IF cache[i].key = key THEN [key |-> key, value |-> value] ELSE cache[i]]
  ELSE Append(cache, [key |-> key, value |-> value])

\* the key setMemoryCache deletes before it sets (0: none)
firstKey(cache) ==
  IF Len(cache) >= MaxCacheSize /\ Len(cache) > 0 THEN cache[1].key ELSE 0

\* A faulty variant of setMemoryCache that never evicts.
setMemoryCache_NoEviction(cache, text, vector) == MapSet(cache, text, vector)

setMemoryCache(cache, text, vector) ==
  MapSet(IF firstKey(cache) # 0 THEN MapDelete(cache, firstKey(cache)) ELSE cache,
         text, vector)

\* NoVector: no row (null)
getCachedEmbedding(table, hash, model) ==
  IF \E r \in table : r.content_hash = hash /\ r.model = model
    THEN fromBuffer((CHOOSE r \in table :
                       r.content_hash = hash /\ r.model = model).embedding)
  ELSE NoVector

\* INSERT OR REPLACE on the key (content_hash, model)
setCachedEmbedding(table, hash, model, vector) ==
  {r \in table : ~(r.content_hash = hash /\ r.model = model)}
    \cup {[content_hash |-> hash, model |-> model,
           embedding |-> vectorBuffer(vector)]}

\* A faulty variant of embedLookup that never reads the persistent cache.
embedLookup_SkipsL2(cache, table, model, text, readOk) ==
  IF MapHas(cache, text)
    THEN [tier |-> "L1", vector |-> MapGet(cache, text), cache |-> cache]
  ELSE [tier |-> "miss", vector |-> NoVector, cache |-> cache]

\* embed up to its return from a cache tier, or up to its await of the
\* model.  readOk: the statement of getCachedEmbedding succeeds.
embedLookup(cache, table, model, text, readOk) ==
  IF MapHas(cache, text)
    THEN [tier |-> "L1", vector |-> MapGet(cache, text), cache |-> cache]
  ELSE LET dbCached == IF readOk
                         THEN getCachedEmbedding(table, contentHash(text), model)
                       ELSE NoVector
       IN IF dbCached # NoVector
            THEN [tier |-> "L2", vector |-> dbCached,
                  cache |-> setMemoryCache(cache, text, dbCached)]
          ELSE [tier |-> "miss", vector |-> NoVector, cache |-> cache]

Embedder == ret.op = "embedder"
NoCalls == [t \in Texts |-> 0]
RECURSIVE SumCalls(_, _)
SumCalls(calls, S) ==
  IF S = {} THEN 0
  ELSE LET t == CHOOSE x \in S : TRUE IN calls[t] + SumCalls(calls, S \ {t})

\* embed(text) is called
EmbedStarts ==
  /\ Embedder
  /\ \E text \in Texts, readOk \in BOOLEAN :
     \E r \in {embedLookup(ret.cache, embedding_cache, ret.model, text, readOk)} :
       /\ r.tier = "miss" => SumCalls(ret.calls, Texts) < MaxPending
       /\ ret' = [ret EXCEPT !.cache = r.cache,
                    !.calls[text] = IF r.tier = "miss" THEN @ + 1 ELSE @,
                    !.last = [tier |-> r.tier, text |-> text, vector |-> r.vector,
                              readOk |-> readOk,
                              evicted |-> IF r.tier = "L2" THEN firstKey(ret.cache)
                                          ELSE 0]]
  /\ UNCHANGED <<memories, vec_memories, fts_memories, embedding_cache, nextId,
                 cacheFaults, storeFaults>>

\* the pipeline returns to a waiting call: L1 and L2 are written.
\* writeOk: the statement of setCachedEmbedding succeeds.
EmbedInfers ==
  /\ Embedder
  /\ \E text \in Texts, writeOk \in BOOLEAN :
     \E result \in {inference(ret.model, text)} :
       /\ ret.calls[text] > 0
       /\ ret' = [ret EXCEPT !.cache = setMemoryCache(@, text, result),
                    !.calls[text] = @ - 1,
                    !.last = [tier |-> "model", text |-> text, vector |-> result,
                              readOk |-> writeOk,
                              evicted |-> firstKey(ret.cache)]]
       /\ embedding_cache' =
            IF writeOk
              THEN setCachedEmbedding(embedding_cache, contentHash(text),
                                      ret.model, result)
            ELSE embedding_cache
  /\ UNCHANGED <<memories, vec_memories, fts_memories, nextId, cacheFaults,
                 storeFaults>>

\* model load or inference throws
EmbedThrows ==
  /\ Embedder
  /\ \E text \in Texts :
       /\ ret.calls[text] > 0
       /\ ret' = [ret EXCEPT !.calls[text] = @ - 1,
                    !.last = [tier |-> "error", text |-> text, vector |-> NoVector,
                              readOk |-> TRUE, evicted |-> 0]]
  /\ UNCHANGED <<memories, vec_memories, fts_memories, embedding_cache, nextId,
                 cacheFaults, storeFaults>>

NoLast ==
  [tier |-> "none", text |-> 0, vector |-> NoVector, readOk |-> TRUE, evicted |-> 0]

\* the process exits and a later one starts, under either model id
ProcessRestarts ==
  /\ Embedder
  /\ \E model \in Models :
       ret' = [ret EXCEPT !.model = model, !.cache = <<>>, !.calls = NoCalls,
                          !.last = NoLast]
  /\ UNCHANGED <<memories, vec_memories, fts_memories, embedding_cache, nextId,
                 cacheFaults, storeFaults>>

\* memo reset: the database file is removed and the process exits
EmbedderReset ==
  /\ Embedder
  /\ embedding_cache' = {}
  /\ ret' = [ret EXCEPT !.cache = <<>>, !.calls = NoCalls,
                        !.last = [NoLast EXCEPT !.tier = "reset"]]
  /\ UNCHANGED <<memories, vec_memories, fts_memories, nextId, cacheFaults,
                 storeFaults>>

EmbedderInit ==
  /\ memories = {} /\ vec_memories = {} /\ fts_memories = {}
  /\ embedding_cache = {} /\ nextId = 1
  /\ cacheFaults = 0 /\ storeFaults = 0
  /\ \E model \in Models :
       ret = [op |-> "embedder", model |-> model, cache |-> <<>>,
              calls |-> NoCalls, last |-> NoLast]

EmbedderNext ==
  \/ EmbedStarts
  \/ EmbedInfers
  \/ EmbedThrows
  \/ ProcessRestarts
  \/ EmbedderReset

EmbedderSpec == EmbedderInit /\ [][EmbedderNext]_vars

----------------------------------------------------------------------------
(* importer.ts: chunkMarkdown *)

\* Characters are numbers: Space, LF and CR are the whitespace, and the
\* j-th visible character of line n is 100 n + j.  A file is built from up
\* to MaxLines lines, each some spaces followed by some visible characters,
\* and ends its lines with LF or with CR LF.
MaxLines == 3
Space == 0
LF == 0 - 1
CR == 0 - 2
Whitespace == {Space, LF, CR}

LineShapes ==
  {[spaces |-> 0, ink |-> 0], [spaces |-> 3, ink |-> 0], [spaces |-> 0, ink |-> 10],
   [spaces |-> 0, ink |-> 30], [spaces |-> 0, ink |-> 40], [spaces |-> 32, ink |-> 8]}

LineOf(shape, lineNo) ==
  [j \in 1..(shape.spaces + shape.ink) |->
     IF j <= shape.spaces THEN Space ELSE 100 * lineNo + (j - shape.spaces)]

RECURSIVE FileOf(_, _, _)
FileOf(shapes, lineNo, eol) ==
  IF shapes = <<>> THEN <<>>
  ELSE LineOf(Head(shapes), lineNo)
         \o (IF Len(shapes) > 1 THEN eol ELSE <<>>)
         \o FileOf(Tail(shapes), lineNo + 1, eol)

\* the pairs cmdImportMarkdown accepts: chunkTokens > 0, 0 <= overlapTokens,
\* overlapTokens < chunkTokens
Chunkings ==
  {c \in [chunkTokens : {1, 8, 10}, overlapTokens : {0, 1, 3, 7}] :
     c.overlapTokens < c.chunkTokens}

Max(a, b) == IF a >= b THEN a ELSE b

\* content.replace(/\r\n/g, "\n")
RECURSIVE replaceCrLf(_)
replaceCrLf(content) ==
  LET at == {i \in 1..(Len(content) - 1) : content[i] = CR /\ content[i + 1] = LF}
  IN IF at = {} THEN content
     ELSE LET i == CHOOSE j \in at : \A l \in at : j <= l
          IN SubSeq(content, 1, i - 1) \o <<LF>>
               \o replaceCrLf(SubSeq(content, i + 2, Len(content)))

\* content.split("\n"): never empty
RECURSIVE splitLines(_)
splitLines(content) ==
  IF \E i \in 1..Len(content) : content[i] = LF
    THEN LET i == CHOOSE j \in 1..Len(content) :
                    /\ content[j] = LF
                    /\ \A l \in 1..(j - 1) : content[l] # LF
         IN <<SubSeq(content, 1, i - 1)>>
              \o splitLines(SubSeq(content, i + 1, Len(content)))
  ELSE <<content>>

\* entries.map(line).join("\n")
RECURSIVE joinLines(_)
joinLines(entries) ==
  IF entries = <<>> THEN <<>>
  ELSE IF Len(entries) = 1 THEN entries[1].line
  ELSE entries[1].line \o <<LF>> \o joinLines(Tail(entries))

\* the slices of at most maxChars characters of one line
segmentsOf(line, lineNo, maxChars) ==
  IF Len(line) = 0 THEN <<[line |-> <<>>, lineNo |-> lineNo]>>
  ELSE [s \in 1..((Len(line) + maxChars - 1) \div maxChars) |->
          [line |-> SubSeq(line, (s - 1) * maxChars + 1,
                           Min(s * maxChars, Len(line))),
           lineNo |-> lineNo]]

RECURSIVE allSegments(_, _, _)
allSegments(lines, lineNo, maxChars) ==
  IF lines = <<>> THEN <<>>
  ELSE segmentsOf(Head(lines), lineNo, maxChars)
         \o allSegments(Tail(lines), lineNo + 1, maxChars)

\* A faulty variant of flush that emits the first entry only.
flush_FirstEntryOnly(chunks, current) ==
  IF current = <<>> THEN chunks
  ELSE Append(chunks, [startLine |-> current[1].lineNo,
                       endLine |-> current[Len(current)].lineNo,
                       text |-> current[1].line])

flush(chunks, current) ==
  IF current = <<>> THEN chunks
  ELSE Append(chunks, [startLine |-> current[1].lineNo,
                       endLine |-> current[Len(current)].lineNo,
                       text |-> joinLines(current)])

RECURSIVE charsOf(_)
charsOf(entries) ==
  IF entries = <<>> THEN 0
  ELSE Len(Head(entries).line) + 1 + charsOf(Tail(entries))

\* the shortest tail of current whose size reaches overlapChars, or all of it
carryOverlap(current, overlapChars) ==
  IF overlapChars <= 0 \/ current = <<>> THEN <<>>
  ELSE LET n == Len(current)
           reaches == {i \in 1..n : charsOf(SubSeq(current, i, n)) >= overlapChars}
           from == IF reaches = {} THEN 1
                   ELSE CHOOSE i \in reaches : \A j \in reaches : j <= i
       IN SubSeq(current, from, n)

\* the loop over the segments; st: chunks, current, currentChars
RECURSIVE pushSegments(_, _, _, _)
pushSegments(st, segments, maxChars, overlapChars) ==
  IF segments = <<>> THEN st
  ELSE LET segment == Head(segments)
           lineSize == Len(segment.line) + 1
           full == st.currentChars + lineSize > maxChars /\ Len(st.current) > 0
           kept == IF full THEN carryOverlap(st.current, overlapChars)
                   ELSE st.current
           keptChars == IF full THEN charsOf(kept) ELSE st.currentChars
       IN pushSegments(
            [chunks |-> IF full THEN flush(st.chunks, st.current) ELSE st.chunks,
             current |-> Append(kept, segment),
             currentChars |-> keptChars + lineSize],
            Tail(segments), maxChars, overlapChars)

chunkMarkdown(content, chunking) ==
  LET lines == splitLines(replaceCrLf(content))
      maxChars == Max(32, chunking.chunkTokens * 4)
      overlapChars == Max(0, chunking.overlapTokens * 4)
      st == pushSegments([chunks |-> <<>>, current |-> <<>>, currentChars |-> 0],
                         allSegments(lines, 1, maxChars), maxChars, overlapChars)
      chunks == flush(st.chunks, st.current)
  IN SelectSeq(chunks, LAMBDA chunk : \E i \in 1..Len(chunk.text) :
                                        chunk.text[i] \notin Whitespace)

\* a markdown file is read and chunked
ChunkFile ==
  /\ ret.op = "file"
  /\ ret' = [op |-> "chunks", content |-> ret.content, chunking |-> ret.chunking,
             chunks |-> chunkMarkdown(ret.content, ret.chunking)]
  /\ UNCHANGED <<memories, vec_memories, fts_memories, embedding_cache, nextId,
                 cacheFaults, storeFaults>>

ChunkInit ==
  /\ memories = {} /\ vec_memories = {} /\ fts_memories = {}
  /\ embedding_cache = {} /\ nextId = 1
  /\ cacheFaults = 0 /\ storeFaults = 0
  /\ \E n \in 1..MaxLines, chunking \in Chunkings, eol \in {<<LF>>, <<CR, LF>>} :
     \E shapes \in [1..n -> LineShapes] :
       ret = [op |-> "file", content |-> FileOf(shapes, 1, eol),
              chunking |-> chunking]

ChunkSpec == ChunkInit /\ [][ChunkFile]_vars

----------------------------------------------------------------------------
(* cli.ts: main, from the switch over the command to process exit *)

\* One CLI process at a time.  ret holds where main is (pc), the state of
\* the process's connection (db: "none" until getDb opens it, "open",
\* "closed" by closeDb, which checkpoints first), how the handler ended and
\* the exit code.
Cli == ret.op = "cli"
CliCommands == {"forget", "list", "status", "tags", "help", "unknown"}

\* closeDb: PRAGMA wal_checkpoint(TRUNCATE) and close, when a connection is open
closeDb(process) ==
  IF process.db = "open"
    THEN [process EXCEPT !.db = "closed", !.checkpointed = TRUE]
  ELSE process

\* process.exit(code) inside a handler: nothing after it runs
ExitNow(process, db, code) ==
  [process EXCEPT !.pc = "exited", !.db = db, !.outcome = "exit", !.exitCode = code]

\* the handler returns or throws: main goes on to its finally block
ToFinally(process, db, outcome) ==
  [process EXCEPT !.pc = "finally", !.db = db, !.outcome = outcome]

\* cmdForget(id, containerName); id 0: no id given, containerTag "": no
\* --container
mainForget(id, containerTag, failAt) ==
  \E memoryTag \in {getMemoryContainerTag(Db, id)} :
  \E del \in {deleteMemory(Db, id, failAt)} :
    IF id = 0
      THEN /\ failAt = 0
           /\ ret' = ExitNow(ret, "none", 1)
           /\ UNCHANGED <<memories, vec_memories, fts_memories, storeFaults>>
    ELSE IF containerTag # "" /\ (memoryTag = "" \/ memoryTag # containerTag)
      THEN /\ failAt = 0
           /\ ret' = ExitNow(ret, "open", 1)
           /\ UNCHANGED <<memories, vec_memories, fts_memories, storeFaults>>
    ELSE /\ failAt # 0 => del.threw
         /\ memories' = del.db.memories
         /\ vec_memories' = del.db.vec_memories
         /\ fts_memories' = del.db.fts_memories
         /\ storeFaults' = storeFaults - StoreCost(failAt)
         /\ ret' = IF del.threw THEN ToFinally(ret, "open", "threw")
                   ELSE IF del.result THEN ToFinally(ret, "open", "returned")
                   ELSE ExitNow(ret, "open", 1)

\* main up to the end of the handler
MainRuns ==
  /\ Cli /\ ret.pc = "start"
  /\ \E command \in CliCommands :
       CASE command = "forget" ->
              \E id \in 0..MaxIds, containerTag \in Containers \cup {""},
                 failAt \in StoreFaults(3) :
                   mainForget(id, containerTag, failAt)
         [] command \in {"list", "status"} ->
              /\ ret' = ToFinally(ret, "open", "returned")
              /\ UNCHANGED <<memories, vec_memories, fts_memories, storeFaults>>
         [] command \in {"tags", "help"} ->
              /\ ret' = ToFinally(ret, "none", "returned")
              /\ UNCHANGED <<memories, vec_memories, fts_memories, storeFaults>>
         [] command = "unknown" ->
              /\ ret' = ExitNow(ret, "none", 1)
              /\ UNCHANGED <<memories, vec_memories, fts_memories, storeFaults>>
  /\ UNCHANGED <<embedding_cache, nextId, cacheFaults>>

\* finally { closeDb() }
MainFinally ==
  /\ Cli /\ ret.pc = "finally"
  /\ ret' = [closeDb(ret) EXCEPT !.pc = "settled"]
  /\ UNCHANGED <<memories, vec_memories, fts_memories, embedding_cache, nextId,
                 cacheFaults, storeFaults>>

\* main().then(() => process.exit(0)).catch(... process.exit(1))
MainExits ==
  /\ Cli /\ ret.pc = "settled"
  /\ ret' = [ret EXCEPT !.pc = "exited",
                        !.exitCode = IF ret.outcome = "threw" THEN 1 ELSE 0]
  /\ UNCHANGED <<memories, vec_memories, fts_memories, embedding_cache, nextId,
                 cacheFaults, storeFaults>>

NewProcess ==
  [op |-> "cli", pc |-> "start", db |-> "none", checkpointed |-> FALSE,
   outcome |-> "none", exitCode |-> 0]

\* the next command is run
CliStarts ==
  /\ Cli /\ ret.pc = "exited"
  /\ ret' = NewProcess
  /\ UNCHANGED <<memories, vec_memories, fts_memories, embedding_cache, nextId,
                 cacheFaults, storeFaults>>

\* a store with one record in each container
CliInit ==
  /\ \E db \in {insertAll([memories |-> {}, vec_memories |-> {}, fts_memories |-> {}],
                          <<[id |-> 1, content |-> 1, vector |-> 1,
                             containerTag |-> "project:a", type |-> "null",
                             sourceKey |-> NoSource],
                            [id |-> 2, content |-> 2, vector |-> 2,
                             containerTag |-> "container:b", type |-> "null",
                             sourceKey |-> NoSource]>>, 0).db} :
       /\ memories = db.memories
       /\ vec_memories = db.vec_memories
       /\ fts_memories = db.fts_memories
  /\ embedding_cache = {1, 2} /\ nextId = 3
  /\ cacheFaults = 0 /\ storeFaults = MaxFaults
  /\ ret = NewProcess

CliNext == MainRuns \/ MainFinally \/ MainExits \/ CliStarts

CliSpec == CliInit /\ [][CliNext]_vars

----------------------------------------------------------------------------
(* Properties: the store (C1 - C7) *)

RowsOf(table, id) == {r \in table : r.memory_id = id}

\* the doc_chunk records of one source in one container
SourceRecords(mem, containerTag, sourceKey) ==
  {m \in mem : /\ m.container_tag = containerTag
               /\ m.type = "doc_chunk"
               /\ m.source_key = sourceKey}

\* their contents, in insertion (id) order
SourceContents(mem, containerTag, sourceKey) ==
  LET rows == OrderBy(SourceRecords(mem, containerTag, sourceKey),
                      LAMBDA a, b : a.id < b.id)
  IN [i \in 1..Len(rows) |-> rows[i].content]

\* C1: after any sequence of inserts, deletes, replacements by source and
\* reindex calls that each complete (or fail without having written), every
\* record of memories has exactly one row in vec_memories and exactly one
\* row in fts_memories with its id, and the full-text row carries the
\* record's container tag.
C1_ThreeTables ==
  \A m \in memories :
    /\ Cardinality(RowsOf(vec_memories, m.id)) = 1
    /\ Cardinality(RowsOf(fts_memories, m.id)) = 1
    /\ \A f \in RowsOf(fts_memories, m.id) : f.container_tag = m.container_tag

\* an import has just replaced a source while an added record and another
\* container's records are in the store
C1_Witness ==
  /\ ret.op = "import" /\ ret.status = "done"
  /\ \E m \in memories : m.type = "null"
  /\ \E m \in memories : m.type = "doc_chunk"
  /\ Cardinality(memories) = MaxIds
  /\ Cardinality(fts_memories) = MaxIds

\* C2 (as claimed): after every import of a source path into a container,
\* whatever number of chunks the import yields, the records of that source in
\* that container are exactly the chunks of that import.
C2_FullSnapshot ==
  (ret.op = "import" /\ ret.status = "done") =>
    \A p \in ret.paths :
      SourceContents(memories, ret.container, p) = ret.chunksOf[p]

\* C3 (as claimed): no two records of one container have identical content.
C3_NoDuplicateContent ==
  \A m1, m2 \in memories :
    (m1.container_tag = m2.container_tag /\ m1.content = m2.content) => m1.id = m2.id

\* C3 (amended): add never stores a record whose content a record of the
\* same container already has, so no two records that add created share a
\* container and a content; import replaces by source without consulting
\* the duplicate check.
C3_AddNeverDuplicates ==
  [][(ret'.op = "add" /\ ret'.status = "stored") =>
       /\ ~\E m \in memories :
             m.content = ret'.text /\ m.container_tag = ret'.container
       /\ \A m1, m2 \in memories' :
            (/\ m1.type = "null" /\ m2.type = "null"
             /\ m1.container_tag = m2.container_tag
             /\ m1.content = m2.content) => m1.id = m2.id]_vars

\* add stored a text that an imported chunk of another container also has
C3_Witness ==
  /\ ret.op = "add" /\ ret.status = "stored"
  /\ \E m \in memories : /\ m.type = "doc_chunk"
                        /\ m.content = ret.text
                        /\ m.container_tag # ret.container

\* the adds of a text t into a container that already holds a record with
\* content t, and that got past the embedding of t
ExactDuplicateAdd ==
  /\ ret'.op = "add"
  /\ ret'.status # "embed-error"
  /\ \E m \in memories : m.content = ret'.text /\ m.container_tag = ret'.container

ReportsExactDuplicate ==
  /\ ret'.status = "skipped"
  /\ ret'.reason = "exact duplicate"
  /\ ret'.similarity = 1000
  /\ \E m \in memories : /\ m.id = ret'.existingId
                        /\ m.content = ret'.text
                        /\ m.container_tag = ret'.container

C5_InsertAtomic ==
  ret.op = "add" =>
    /\ ret.status = "store-error" =>
         /\ ~\E m \in memories : m.id = ret.id
         /\ RowsOf(vec_memories, ret.id) = {}
         /\ RowsOf(fts_memories, ret.id) = {}
    /\ ret.status = "stored" =>
         /\ \E m \in memories : m.id = ret.id
         /\ RowsOf(vec_memories, ret.id) # {}
         /\ RowsOf(fts_memories, ret.id) # {}

\* C6: a replacement by source that fails leaves the three tables exactly as
\* they were; one that succeeds removes every old record of the source from
\* all three tables and leaves every new record in all three.
C6_ReplaceAllOrNothing ==
  [][ret'.op = "import" =>
       /\ ret'.status = "store-error" =>
            UNCHANGED <<memories, vec_memories, fts_memories>>
       /\ ret'.status = "done" =>
            \A p \in ret'.paths :
              Len(ret'.chunksOf[p]) > 0 =>
                /\ \A old \in SourceRecords(memories, ret'.container, p) :
                     /\ ~\E m \in memories' : m.id = old.id
                     /\ RowsOf(vec_memories', old.id) = {}
                     /\ RowsOf(fts_memories', old.id) = {}
                /\ SourceContents(memories', ret'.container, p) = ret'.chunksOf[p]
                /\ \A new \in SourceRecords(memories', ret'.container, p) :
                     /\ RowsOf(vec_memories', new.id) =
                          {[memory_id |-> new.id, embedding |-> new.vector]}
                     /\ RowsOf(fts_memories', new.id) =
                          {[content |-> new.content, memory_id |-> new.id,
                            container_tag |-> new.container_tag]}]_vars

\* a replacement failed while chunks of the source were stored
C6_Witness ==
  /\ ret.op = "import" /\ ret.status = "store-error"
  /\ \E c \in Containers, p \in SourceKeys : SourceRecords(memories, c, p) # {}

\* C7: deleteMemory returns true exactly when memories held a record with
\* the id; after true no table has a row with the id; after false the three
\* tables are unchanged.
C7_DeleteMemory ==
  [][(ret'.op = "forget" /\ ret'.status = "done") =>
       /\ ret'.deleted <=> \E m \in memories : m.id = ret'.id
       /\ ret'.deleted =>
            /\ ~\E m \in memories' : m.id = ret'.id
            /\ RowsOf(vec_memories', ret'.id) = {}
            /\ RowsOf(fts_memories', ret'.id) = {}
       /\ ~ret'.deleted => UNCHANGED <<memories, vec_memories, fts_memories>>]_vars

\* a record was deleted while others stayed
C7_Witness ==
  /\ ret.op = "forget" /\ ret.status = "done" /\ ret.deleted
  /\ memories # {}

----------------------------------------------------------------------------
(* Properties: search (C8 - C10) *)

Searched == ret.op = "search" /\ ret.status = "done"

ReturnedIds == {ret.results[i].id : i \in 1..Len(ret.results)}

InScope(m) == ret.container = "" \/ m.container_tag = ret.container

\* The two candidate lists, described by counting instead of by position:
\* the rank of a record in a list is the number of rows that list puts
\* before it.
SimTo(m) == CosineSim(m.vector, ret.query)

VectorRank(m) ==
  Cardinality({o \in memories :
                 \/ SimTo(o) > SimTo(m)
                 \/ SimTo(o) = SimTo(m) /\ o.id < m.id})

InKnnOutput(m) == VectorRank(m) < 4 * ret.limit

InVectorList(m) == InKnnOutput(m) /\ SimTo(m) >= minVectorSimilarity

Bm25Rank(m) ==
  Cardinality({o \in memories :
                 /\ InScope(o)
                 /\ Tokens(ret.query) \subseteq Tokens(o.content)
                 /\ \/ Cardinality(Tokens(o.content)) < Cardinality(Tokens(m.content))
                    \/ /\ Cardinality(Tokens(o.content)) = Cardinality(Tokens(m.content))
                       /\ o.id < m.id})

InBm25List(m) ==
  /\ ret.ftsOk
  /\ InScope(m)
  /\ Tokens(ret.query) \subseteq Tokens(m.content)
  /\ Bm25Rank(m) < 4 * ret.limit

\* the similarity the three cases prescribe, as a fraction
ClaimedSimilarity(m) ==
  LET v == VectorRank(m)
      b == Bm25Rank(m)
  IN IF InVectorList(m) /\ InBm25List(m)
       THEN IF 60 * (120 + v + b) >= 2 * (60 + v) * (60 + b)
              THEN [n |-> 1, d |-> 1]
              ELSE [n |-> 60 * (120 + v + b), d |-> 2 * (60 + v) * (60 + b)]
     ELSE IF InBm25List(m)
       THEN [n |-> 60, d |-> 60 + b]
     ELSE [n |-> SimTo(m), d |-> 1000]

Candidate(m) == InScope(m) /\ (InVectorList(m) \/ InBm25List(m))

\* C8: every result of a search scoped to container C is a record of
\* memories whose container tag is C, whatever ids the vector and the
\* full-text index produced.
C8_ScopedResults ==
  (Searched /\ ret.container # "") =>
    \A i \in 1..Len(ret.results) :
      \E m \in memories : m.id = ret.results[i].id /\ m.container_tag = ret.container

\* a scoped search returned something while the nearest record and a
\* full-text match belonged to the other container
C8_Witness ==
  /\ Searched /\ ret.container # "" /\ ret.ftsOk
  /\ Len(ret.results) > 0
  /\ \E m \in memories : /\ m.container_tag # ret.container
                        /\ VectorRank(m) = 0
                        /\ SimTo(m) >= minVectorSimilarity
                        /\ Tokens(ret.query) \subseteq Tokens(m.content)

\* C9: the similarity reported for a returned record is min(RRF/(2/60), 1)
\* when it is in the gated vector list and in the BM25 list (1.0 at ranks
\* (0, 0)), min(RRF/(1/60), 1) when it is in the BM25 list only, and its
\* cosine similarity when it is in the gated vector list only; a record of
\* the KNN output below minVectorSimilarity that is not in the BM25 list is
\* never returned.
C9_Similarity ==
  Searched =>
    /\ \A i \in 1..Len(ret.results) :
         \E m \in memories :
           /\ m.id = ret.results[i].id
           /\ InVectorList(m) \/ InBm25List(m)
           /\ ret.results[i].similarity.n * ClaimedSimilarity(m).d
                = ClaimedSimilarity(m).n * ret.results[i].similarity.d
           /\ (InVectorList(m) /\ InBm25List(m) /\ VectorRank(m) = 0 /\ Bm25Rank(m) = 0)
                => ret.results[i].similarity.n = ret.results[i].similarity.d
    /\ \A m \in memories :
         (InKnnOutput(m) /\ SimTo(m) < minVectorSimilarity /\ ~InBm25List(m))
           => m.id \notin ReturnedIds

\* one search returned a record of both lists at ranks (0, 0) and a record
\* of the vector list only, and left out a record below the gate
C9_Witness ==
  /\ Searched
  /\ \E m \in memories : /\ m.id \in ReturnedIds
                        /\ InVectorList(m) /\ InBm25List(m)
                        /\ VectorRank(m) = 0 /\ Bm25Rank(m) = 0
  /\ \E m \in memories : /\ m.id \in ReturnedIds
                        /\ InVectorList(m) /\ ~InBm25List(m)
  /\ \E m \in memories : /\ InScope(m) /\ InKnnOutput(m)
                        /\ SimTo(m) < minVectorSimilarity /\ ~InBm25List(m)

\* a search returned a record of the BM25 list only
C9_Bm25OnlyReturned ==
  /\ Searched
  /\ \E m \in memories : /\ m.id \in ReturnedIds
                        /\ ~InVectorList(m) /\ InBm25List(m)
                        /\ Bm25Rank(m) > 0

\* C10: the returned list is sorted by similarity, non-increasing, holds
\* only similarities >= threshold, has at most limit entries, and no
\* candidate that the truncation dropped has a strictly higher similarity
\* than a returned one.
C10_RankedResults ==
  Searched =>
    /\ Len(ret.results) <= ret.limit
    /\ \A i \in 1..Len(ret.results) :
         ret.results[i].similarity.n * 1000 >= ret.threshold * ret.results[i].similarity.d
    /\ \A i, j \in 1..Len(ret.results) :
         i < j => ret.results[i].similarity.n * ret.results[j].similarity.d
                    >= ret.results[j].similarity.n * ret.results[i].similarity.d
    /\ \A m \in memories :
         (Candidate(m) /\ m.id \notin ReturnedIds) =>
           \A i \in 1..Len(ret.results) :
             ClaimedSimilarity(m).n * ret.results[i].similarity.d
               <= ret.results[i].similarity.n * ClaimedSimilarity(m).d

\* the limit cut off a candidate above the threshold, and the returned
\* similarities differ
C10_Witness ==
  /\ Searched
  /\ Len(ret.results) = ret.limit /\ ret.limit > 1
  /\ ret.results[1].similarity # ret.results[2].similarity
  /\ \E m \in memories :
       /\ Candidate(m) /\ m.id \notin ReturnedIds
       /\ ClaimedSimilarity(m).n * 1000 >= ret.threshold * ClaimedSimilarity(m).d

----------------------------------------------------------------------------
(* Properties: search and duplicates (C11 - C14) *)

\* C11 (as claimed, for a record whose content no other record of its
\* container has): a search within the record's container for text
\* identical to the record's content returns that record with similarity
\* exactly 1.0, whatever other records the store holds.
C11_IdenticalTextScoresOne ==
  (Searched /\ ret.container # "") =>
    \A m \in memories :
      (/\ m.container_tag = ret.container
       /\ m.content = ret.query
       /\ \A o \in memories :
            (o.container_tag = m.container_tag /\ o.content = m.content) => o.id = m.id)
      => \E i \in 1..Len(ret.results) :
           /\ ret.results[i].id = m.id
           /\ ret.results[i].similarity.n = ret.results[i].similarity.d

\* the adds of a text into a container that holds a record whose vector is
\* at least deduplicationSimilarityThreshold close to the text's
NearDuplicateAdd ==
  /\ ret'.op = "add"
  /\ ret'.status # "embed-error"
  /\ \E m \in memories :
       /\ m.container_tag = ret'.container
       /\ CosineSim(m.vector, ret'.text) >= deduplicationSimilarityThreshold

\* C12 (as claimed): such an add is reported as a duplicate and stores
\* nothing, whatever the other containers hold, and the reported existing
\* id names a record of the candidate's container.
C12_NearDuplicateBlocked ==
  [][NearDuplicateAdd =>
       /\ ret'.status = "skipped"
       /\ UNCHANGED <<memories, vec_memories, fts_memories>>
       /\ \E m \in memories :
            m.id = ret'.existingId /\ m.container_tag = ret'.container]_vars

\* what a vector-only search finds: the records of the scope among the
\* 4 * limit nearest rows, at or above the gate and the threshold
VectorOnlyHit(m) ==
  /\ InScope(m)
  /\ InVectorList(m)
  /\ SimTo(m) >= ret.threshold

FtsFailed == Searched /\ ~ret.ftsOk

\* C13 (as claimed): when the full-text query raises, the search returns
\* what a vector-only search gives, so every record whose cosine similarity
\* is at least minVectorSimilarity and the threshold is returned.
C13_EveryVectorHitReturned ==
  FtsFailed =>
    \A m \in memories :
      (InScope(m) /\ SimTo(m) >= minVectorSimilarity /\ SimTo(m) >= ret.threshold)
        => m.id \in ReturnedIds

\* C13 (amended): when the full-text query raises, the search does not
\* raise and returns what a vector-only search gives: records of the scope
\* among the 4 * limit nearest rows with cosine similarity at least
\* minVectorSimilarity and the threshold, each reported with its cosine
\* similarity, the limit best of them; such a record is left out only when
\* limit records with at least its similarity are returned.
C13_VectorOnlyFallback ==
  FtsFailed =>
    /\ \A i \in 1..Len(ret.results) :
         \E m \in memories :
           /\ m.id = ret.results[i].id
           /\ VectorOnlyHit(m)
           /\ ret.results[i].similarity.n * 1000 = SimTo(m) * ret.results[i].similarity.d
    /\ \A i, j \in 1..Len(ret.results) : ret.results[i].id = ret.results[j].id => i = j
    /\ \A m \in memories :
         (VectorOnlyHit(m) /\ m.id \notin ReturnedIds) =>
           /\ Len(ret.results) = ret.limit
           /\ \A i \in 1..Len(ret.results) :
                ret.results[i].similarity.n * 1000 >= SimTo(m) * ret.results[i].similarity.d

\* the full-text query failed on a query that matches a record of the
\* scope, and a record came back on its vector alone
C13_Witness ==
  /\ FtsFailed
  /\ Len(ret.results) > 0
  /\ \E m \in memories : /\ InScope(m)
                        /\ Tokens(ret.query) \subseteq Tokens(m.content)
                        /\ m.id \in ReturnedIds
                        /\ SimTo(m) < 1000

\* C14 (as claimed): within one search, a record of both lists is never
\* reported with a lower similarity than a record of one list only whose
\* rank in that list is no better than the first record's.
C14_BothListsRankHigher ==
  Searched =>
    \A i, j \in 1..Len(ret.results) :
      \A x, y \in memories :
        (/\ x.id = ret.results[i].id
         /\ y.id = ret.results[j].id
         /\ InVectorList(x) /\ InBm25List(x)
         /\ \/ /\ InBm25List(y) /\ ~InVectorList(y)
               /\ Bm25Rank(y) >= Bm25Rank(x)
            \/ /\ InVectorList(y) /\ ~InBm25List(y)
               /\ VectorRank(y) >= VectorRank(x))
        => ret.results[i].similarity.n * ret.results[j].similarity.d
             >= ret.results[j].similarity.n * ret.results[i].similarity.d

-----------------------------------------------------------------------------
(* Properties: import, forget, reindex and embedding (C15 - C20) *)

\* the source keys an import command replaces: its files that have chunks,
\* or the key of the repo-map file
ReplacedKeys(r) ==
  IF r.op = "import" THEN {k \in r.paths : r.chunksOf[k] # <<>>} ELSE {RepoMapKey}

\* the records outside the pairs (container, source key) of the import r
OutsideFrame(mem, r) ==
  {m \in mem : ~(m.container_tag = r.container /\ m.source_key \in ReplacedKeys(r))}

\* the rows of a table that belong to no record inside the frame of r,
\* before or after the command
RowsOutsideFrame(rows, r) ==
  {x \in rows :
     \A m \in (memories \cup memories') \ (OutsideFrame(memories, r)
                                              \cup OutsideFrame(memories', r)) :
       x.memory_id # m.id}

\* C15: an import into container C changes only records of C whose source
\* key is one of the replaced files (or the repo-map file): every record with
\* another source key,
\* every record of another container and every user-added record is the
\* same before and after, in memories, vec_memories and fts_memories.
C15_ReplaceFrame ==
  [][ret'.op \in {"import", "import-repo-map"} =>
       /\ OutsideFrame(memories', ret') = OutsideFrame(memories, ret')
       /\ RowsOutsideFrame(vec_memories', ret') = RowsOutsideFrame(vec_memories, ret')
       /\ RowsOutsideFrame(fts_memories', ret') = RowsOutsideFrame(fts_memories, ret')
       /\ \A m \in OutsideFrame(memories, ret') :
            /\ RowsOf(vec_memories', m.id) = RowsOf(vec_memories, m.id)
            /\ RowsOf(fts_memories', m.id) = RowsOf(fts_memories, m.id)]_vars

\* an import replaced the chunk of file 1 in project:a by a new one, next to
\* a user-added record and a chunk of file 2 in project:a and a chunk of
\* file 1 in container:b
C15_Witness ==
  /\ ret.op = "import" /\ ret.status = "done"
  /\ ret.container = "project:a" /\ ReplacedKeys(ret) = {1}
  /\ \E m \in memories : m.container_tag = "project:a" /\ m.source_key = 1 /\ m.id > 0
  /\ ~\E m \in memories : m.container_tag = "project:a" /\ m.source_key = 1 /\ m.id <= 0
  /\ \E m \in memories : m.container_tag = "project:a" /\ m.type = "null"
  /\ \E m \in memories : m.container_tag = "project:a" /\ m.source_key = 2
  /\ \E m \in memories : m.container_tag = "container:b" /\ m.source_key = 1

\* the file of a markdown import whose embedding failed: the one after the
\* files already replaced
FailedFile(r) == collectImportChunks(r.paths, r.chunksOf)[r.imported + 1]

\* a markdown import stopped on an embedding failure
MarkdownEmbedFailure(r) == r.op = "import" /\ r.status = "embed-error"

\* a repo-map import stopped on an embedding failure
RepoMapEmbedFailure(r) == r.op = "import-repo-map" /\ r.status = "embed-error"

\* the part of the claim on markdown imports: the failed file's source key
\* keeps its records in every container, the three tables stay in step, and
\* each earlier file of the command holds exactly its new chunks
MarkdownFailureKeepsSource ==
  MarkdownEmbedFailure(ret') =>
    LET files == collectImportChunks(ret'.paths, ret'.chunksOf)
        K == FailedFile(ret').sourceKey
    IN /\ {m \in memories' : m.source_key = K} = {m \in memories : m.source_key = K}
       /\ \A m \in {x \in memories : x.source_key = K} :
            /\ RowsOf(vec_memories', m.id) = RowsOf(vec_memories, m.id)
            /\ RowsOf(fts_memories', m.id) = RowsOf(fts_memories, m.id)
       /\ C1_ThreeTables'
       /\ \A i \in 1..ret'.imported :
            SourceContents(memories', ret'.container, files[i].sourceKey)
              = files[i].chunks

\* C16 (as claimed): an embedding failure in a markdown import leaves the
\* failed file's records alone, keeps the three tables in step and keeps the
\* earlier files' replacements; an embedding failure in a repo-map import
\* leaves every table of the store as it was, embedding_cache included.
C16_EmbedFailureWholeStore ==
  [][/\ MarkdownFailureKeepsSource
     /\ RepoMapEmbedFailure(ret') =>
          UNCHANGED <<memories, vec_memories, fts_memories, embedding_cache>>]_vars

\* C16 (amended): the same, where the repo-map import leaves memories,
\* vec_memories and fts_memories as they were (embedding_cache may have
\* gained the vectors of the entries embedded before the failure).
C16_EmbedFailureKeepsRecords ==
  [][/\ MarkdownFailureKeepsSource
     /\ RepoMapEmbedFailure(ret') =>
          UNCHANGED <<memories, vec_memories, fts_memories>>]_vars

\* a markdown import failed on its second file after it replaced the chunk
\* of its first file in project:a, and the second file's old chunk is kept
C16_Witness ==
  /\ MarkdownEmbedFailure(ret) /\ ret.imported = 1
  /\ ret.container = "project:a"
  /\ \E m \in memories : /\ m.container_tag = "project:a" /\ m.source_key = 1
                         /\ m.id > 0
  /\ \E m \in memories : /\ m.container_tag = "project:a" /\ m.source_key = 2
                         /\ m.id <= 0

\* a repo-map import failed on its second entry after the first was embedded
\* and cached
C16_RepoMapWitness ==
  /\ RepoMapEmbedFailure(ret)
  /\ Len(ret.entries) = 2
  /\ ret.entries[1] \in embedding_cache /\ ret.entries[2] \notin embedding_cache
  /\ memories # {}

\* forget ran with --container
ForgotNamed(r) == r.op = "forget" /\ "container" \in DOMAIN r

\* C17: forget <id> --container <name> changes a table only if the record
\* of the id has the named container's tag; when the id has no record or its
\* record has another container's tag, the command exits with a non-zero
\* code and memories, vec_memories and fts_memories are unchanged.
C17_ForgetNamedContainer ==
  [][ForgotNamed(ret') =>
       LET mine == {m \in memories : m.id = ret'.id}
           same == \E m \in mine : m.container_tag = ret'.container
       IN /\ ~same => /\ ret'.exit # 0
                      /\ UNCHANGED <<memories, vec_memories, fts_memories>>
          /\ (ret'.exit = 0) => /\ same
                                /\ memories' = memories \ mine
                                /\ ret'.id \notin {v.memory_id : v \in vec_memories'}
                                /\ ret'.id \notin {f.memory_id : f \in fts_memories'}]_vars

\* a forget was refused for a record that another container holds
C17_Witness ==
  /\ ForgotNamed(ret) /\ ret.exit = 1 /\ ret.status = "refused"
  /\ \E m \in memories : m.id = ret.id /\ m.container_tag # ret.container
  /\ \A m \in memories : RowsOf(vec_memories, m.id) # {} /\ RowsOf(fts_memories, m.id) # {}

\* no full-text row refers to a missing record and every record has a
\* full-text row
FtsInStep ==
  /\ \A f \in fts_memories : \E m \in memories : m.id = f.memory_id
  /\ \A m \in memories : \E f \in fts_memories : f.memory_id = m.id

\* C18: after a reindexFts call that completes, no full-text row refers to a
\* missing record and every record has a full-text row; a second call right
\* after a completed one returns {added: 0, removed: 0}.
C18_ReindexIdempotent ==
  [][(ret'.op = "reindex" /\ ret'.status = "done") =>
       /\ FtsInStep'
       /\ (ret.op = "reindex" /\ ret.status = "done") =>
            /\ ret'.added = 0 /\ ret'.removed = 0
            /\ UNCHANGED <<memories, vec_memories, fts_memories>>]_vars

\* a call that removed an orphaned row and added a missing one has completed
C18_Witness ==
  /\ ret.op = "reindex" /\ ret.status = "done"
  /\ ret.added > 0 /\ ret.removed > 0
  /\ memories # {}

\* C19 (as claimed): a model output of another dimension than the configured
\* one is caught before any record is written: no row of memories holds a
\* vector of another length than the configured one.
C19_NoWrongSizeVector == \A m \in memories : ~WrongSize(m.vector)

\* C20: an add that awaits embedText always gets an answer, a vector or a
\* rejection, and is never left waiting once the timer has fired, whether or
\* not model load and inference complete; when the answer is an inference
\* error or the timeout, the add ends with that error and memories,
\* vec_memories and fts_memories are as before.
C20_EmbedTextSettles ==
  /\ Awaiting ~> ~Awaiting
  /\ [](Awaiting => ret.timer = "armed")
  /\ [][(Awaiting /\ ~Awaiting') =>
          \/ ret'.status = "embed-error"
               /\ UNCHANGED <<memories, vec_memories, fts_memories, nextId>>
          \/ ret'.status \in {"stored", "skipped"}]_vars

\* an add ended with the timeout while records were stored
C20_Witness ==
  /\ ret.op = "add" /\ ret.status = "embed-error"
  /\ "reason" \in DOMAIN ret /\ ret.reason = "timeout"
  /\ memories # {}

-----------------------------------------------------------------------------
(* Properties: configuration, embedder, concurrency, chunking (C21 - C30) *)

\* s is t with some elements left out
RECURSIVE IsSubsequence(_, _)
IsSubsequence(s, t) ==
  IF s = <<>> THEN TRUE
  ELSE IF t = <<>> THEN FALSE
  ELSE IF Head(s) = Head(t) THEN IsSubsequence(Tail(s), Tail(t))
  ELSE IsSubsequence(s, Tail(t))

\* The characters of content outside comments and outside trailing-comma
\* positions: everything in a string literal, and everything else outside a
\* comment but a comma whose next character outside comments and white space
\* is a closing bracket outside a string, and the white space between the
\* two.
OutsideComments(content) ==
  LET cells == scanJsonc(content, 1, FALSE, FALSE, FALSE)
      plain(i) == cells[i].class = "plain"
      skipped(i) == cells[i].class = "comment" \/ (plain(i) /\ IsSpace(content[i]))
      trailing(p) == /\ plain(p) /\ content[p] = ","
                     /\ \E q \in (p + 1)..Len(content) :
                          /\ plain(q) /\ content[q] = "}"
                          /\ \A r \in (p + 1)..(q - 1) : skipped(r)
      afterTrailing(i) == /\ plain(i) /\ IsSpace(content[i])
                          /\ \E p \in 1..(i - 1) :
                               /\ trailing(p)
                               /\ \A r \in (p + 1)..i : skipped(r)
  IN SelectAt(content, {i \in 1..Len(content) :
                          /\ cells[i].class # "comment"
                          /\ ~trailing(i) /\ ~afterTrailing(i)}, 1)

\* the characters of content inside string literals, quotes included
InsideStrings(content) ==
  LET cells == scanJsonc(content, 1, FALSE, FALSE, FALSE)
  IN SelectAt(content, {i \in 1..Len(content) : cells[i].class = "string"}, 1)

\* C21 (as claimed): stripJsoncComments keeps, in order, every character
\* that lies outside comments and outside trailing-comma positions; the
\* characters of every string literal come out unchanged.
C21_PreservesOutsideComments ==
  ret.op = "config" =>
    /\ IsSubsequence(OutsideComments(ret.content), ret.stripped)
    /\ InsideStrings(ret.stripped) = InsideStrings(ret.content)

\* C22: while no initialisation has failed the pipeline is constructed at
\* most once and every call that waits, waits for the promise of that one
\* construction; no call runs the pipeline before it is set.
C22_SingleInitialisation ==
  EmbedProcess =>
    /\ ret.failures = 0 =>
         /\ ret.constructions <= 1
         /\ \A c \in Callers : ret.pc[c] \in {"warmup", "init"} => ret.on[c] = 1
    /\ ~ret.inferredUnready

\* three calls waited for one construction and all ran the pipeline
C22_Witness ==
  /\ EmbedProcess /\ ret.failures = 0 /\ ret.constructions = 1
  /\ \A c \in Callers : ret.pc[c] = "inferred"


\* C23: when both processes have finished adding the same content to the
\* same container, at most one record with that content is in it.
C23_AtMostOneRecord ==
  (AddRace /\ \A p \in Procs : ret.pc[p] \in {"skipped", "stored"}) =>
    Cardinality({m \in memories : /\ m.content = ret.text
                                  /\ m.container_tag = ret.container}) <= 1

\* both processes checked before either inserted, and both stored
C23_BothStored ==
  AddRace /\ \A p \in Procs : ret.pc[p] = "stored"

\* the second process checked after the first one's INSERT and skipped
C23_LaterCheckSkips ==
  AddRace /\ ret.pc[1] = "stored" /\ ret.pc[2] = "skipped"


\* the persistent cache holds the row of a text under the process's model
\* id: an embed of the text wrote it, and no reset has removed it since
HasRow(text) ==
  \E r \in embedding_cache :
    r.content_hash = contentHash(text) /\ r.model = ret.model

\* a step in which embed is called and returns or starts to wait
EmbedCallStep == Embedder /\ ret'.op = "embedder" /\ ret'.last.tier \in {"L1", "L2", "miss"}

\* the tiers in order: an L1 hit changes nothing, an L2 hit is taken only
\* on an L1 miss and is promoted, the model is reached only on a miss of
\* both, and its result is written to L1
TiersInOrder ==
  /\ ret'.last.tier = "L1" =>
       /\ MapHas(ret.cache, ret'.last.text)
       /\ ret'.cache = ret.cache /\ ret'.calls = ret.calls
  /\ ret'.last.tier = "L2" =>
       /\ ~MapHas(ret.cache, ret'.last.text) /\ HasRow(ret'.last.text)
       /\ MapHas(ret'.cache, ret'.last.text) /\ ret'.calls = ret.calls
  /\ ret'.last.tier = "miss" => ~MapHas(ret.cache, ret'.last.text)
  /\ ret'.last.tier = "model" =>
       /\ MapHas(ret'.cache, ret'.last.text)
       /\ ret'.last.readOk =>
            \E r \in embedding_cache' :
              r.content_hash = contentHash(ret'.last.text) /\ r.model = ret.model

\* C24 as stated: once an embed of t has written its row, no later
\* embed(t) under the same model id waits for the model until reset.
C24_NoInferenceAfterWrite ==
  [][(Embedder /\ ret'.op = "embedder") =>
       /\ TiersInOrder
       /\ (EmbedCallStep /\ HasRow(ret'.last.text)) => ret'.last.tier # "miss"]_vars

\* C24: the tiers are consulted in order, and once an embed of t has
\* written its row, a later embed(t) under the same model id waits for the
\* model only if t is not in L1 and its read of the persistent cache fails.
C24_NoInferenceWhileReadable ==
  [][(Embedder /\ ret'.op = "embedder") =>
       /\ TiersInOrder
       /\ (EmbedCallStep /\ HasRow(ret'.last.text) /\ ret'.last.tier = "miss") =>
            ~ret'.last.readOk /\ ~MapHas(ret.cache, ret'.last.text)]_vars

\* a later process finds the row of the text and promotes it
C24_Witness ==
  /\ Embedder /\ ret.last.tier = "L2" /\ ret.calls = NoCalls
  /\ MapKeys(ret.cache) = <<ret.last.text>>


\* C25: whatever tier answers, embed returns the vector that inference on
\* the text under the process's model id produces.
C25_CachedEqualsInference ==
  (Embedder /\ ret.last.tier \in {"L1", "L2", "model"}) =>
    ret.last.vector = inference(ret.model, ret.last.text)

\* a later process, after a write of another text failed, is answered
\* from the persistent cache
C25_Witness ==
  /\ Embedder /\ ret.last.tier = "L2"
  /\ \E t \in Texts : MapHas(ret.cache, t) /\ ~HasRow(t)

\* the keys an insertion of text leaves, given the keys before it
KeysAfterInsert(keys, text) ==
  LET kept == IF Len(keys) >= MaxCacheSize THEN Tail(keys) ELSE keys
  IN IF \E i \in 1..Len(kept) : kept[i] = text THEN kept ELSE Append(kept, text)

\* C26: the L1 map never holds more than its maximum; an insertion that
\* finds it full evicts the earliest inserted key and nothing else, one
\* that does not evicts nothing, and an L1 hit leaves the order as it was.
C26_FifoBound ==
  [][(Embedder /\ ret'.op = "embedder") =>
       /\ Len(ret'.cache) <= MaxCacheSize
       /\ ret'.last.tier \in {"L2", "model"} =>
            MapKeys(ret'.cache) = KeysAfterInsert(MapKeys(ret.cache), ret'.last.text)
       /\ ret'.last.tier \in {"L1", "miss", "error"} => ret'.cache = ret.cache]_vars

\* an insertion found the map full and evicted the oldest of two other keys
C26_Witness ==
  /\ Embedder /\ ret.last.tier = "model" /\ Len(ret.cache) = MaxCacheSize
  /\ ret.last.evicted # 0 /\ ret.last.evicted # ret.last.text
  /\ ~MapHas(ret.cache, ret.last.evicted)
  /\ ret.cache[Len(ret.cache)].key = ret.last.text

\* the second of two concurrent calls for one text found the map full and
\* evicted although the text was present
C26_ConcurrentSameText ==
  /\ Embedder /\ ret.last.tier = "model" /\ ret.last.evicted # 0
  /\ Len(ret.cache) = MaxCacheSize - 1


\* the store with the same records in a container and none in the others
OnlyContainer(db, containerTag) ==
  LET kept == {m \in db.memories : m.container_tag = containerTag}
  IN [memories |-> kept,
      vec_memories |-> {v \in db.vec_memories :
                          \E m \in kept : m.id = v.memory_id},
      fts_memories |-> {f \in db.fts_memories : f.container_tag = containerTag}]

\* C27: a search scoped to a container returns the records and
\* similarities it returns on the store that holds that container's
\* records only, whatever the other containers hold.
C27_ContainersDoNotInterfere ==
  (Searched /\ ret.container # "") =>
    ret.results = searchMemories(OnlyContainer(Db, ret.container), ret.query,
                                 ret.container, ret.query, ret.limit,
                                 ret.threshold, ret.ftsOk)

\* a scoped search that found a record while another container holds one
C27_ScopedSearchBesideOthers ==
  /\ Searched /\ ret.container # "" /\ Len(ret.results) > 0
  /\ \E m \in memories : m.container_tag # ret.container


Chunked == ret.op = "chunks"
maxCharsOf(chunking) == Max(32, chunking.chunkTokens * 4)

\* C28: no chunk of a file has a text longer than max(32, 4 chunk_tokens).
C28_ChunkWithinMaxChars ==
  Chunked => \A i \in 1..Len(ret.chunks) :
               Len(ret.chunks[i].text) <= maxCharsOf(ret.chunking)

\* a chunk of several lines that fills max_chars to the last character
C28_FullChunk ==
  /\ Chunked
  /\ \E i \in 1..Len(ret.chunks) :
       /\ Len(ret.chunks[i].text) = maxCharsOf(ret.chunking)
       /\ ret.chunks[i].startLine < ret.chunks[i].endLine

\* the lines of a chunk's text
ChunkLines(chunk) == splitLines(chunk.text)

\* C29: every segment of a line that has a visible character is one of the
\* lines of an emitted chunk whose line range contains the line's number.
C29_NoContentLost ==
  Chunked =>
    LET lines == splitLines(replaceCrLf(ret.content))
        segments == allSegments(lines, 1, maxCharsOf(ret.chunking))
    IN \A s \in 1..Len(segments) :
         (\E j \in 1..Len(segments[s].line) : segments[s].line[j] \notin Whitespace)
         => \E i \in 1..Len(ret.chunks) :
              /\ ret.chunks[i].startLine <= segments[s].lineNo
              /\ segments[s].lineNo <= ret.chunks[i].endLine
              /\ \E l \in 1..Len(ChunkLines(ret.chunks[i])) :
                   ChunkLines(ret.chunks[i])[l] = segments[s].line

\* a long line was split, a whitespace-only chunk was discarded, and what
\* is left is in two chunks
C29_Witness ==
  /\ Chunked /\ Len(ret.chunks) = 2
  /\ ret.chunks[1].startLine > 1
  /\ ret.chunks[1].endLine = ret.chunks[2].startLine


\* C30: a process that opened the connection has closed it, with the WAL
\* checkpoint, when it exits.
C30_ClosedBeforeExit ==
  (Cli /\ ret.pc = "exited" /\ ret.db # "none") =>
    ret.db = "closed" /\ ret.checkpointed

\* a handler threw with the connection open and main closed it before exit
C30_ClosedAfterThrow ==
  /\ Cli /\ ret.pc = "exited" /\ ret.outcome = "threw"
  /\ ret.db = "closed" /\ ret.checkpointed /\ ret.exitCode = 1

====
